---- MODULE Spec2Model ----
(***************************************************************************)
(* Model of the order lifecycle of ib_async's IB facade                    *)
(* (src/ib_async/ib.py): placeOrder, cancelOrder and bracketOrder acting   *)
(* on the session's Trade collection (wrapper.trades), the request id      *)
(* sequence and the emitted events.                                        *)
(*                                                                         *)
(* Order objects belong to the caller: between two calls the caller may    *)
(* assign any of their fields, so the fields an order carries when it is   *)
(* passed to a call are inputs of that call; `order` holds the object of   *)
(* the last call as the call left it.  A Trade's contract and order        *)
(* reference and the timestamps of log entries are left out: no operation  *)
(* of the lifecycle reads them.  The session is a connected one: its       *)
(* clientId is set and the client hands out request ids from 1.  `old`     *)
(* keeps what the last operation found, so that what an operation did is   *)
(* readable from a single state.                                           *)
(*                                                                         *)
(* Beside the order lifecycle (Spec) the module holds the Ticker           *)
(* subscriptions (SpecTicker), the P&L subscriptions (SpecPnL), both on a  *)
(* connected session, and connectAsync with its startup requests           *)
(* (SpecConnect), which begins with a session that is not connected.       *)
(***************************************************************************)
EXTENDS Integers, Sequences, FiniteSets, TLC

\* ------------------------------------------------------------------ bounds
MaxReqId == 4       \* the client hands out the request ids 1..MaxReqId
MaxOrderId == 2     \* orderIds a caller writes on an order: 0..MaxOrderId
MaxEntries == 3     \* log entries and fills of all Trades together
MaxAccounts == 2    \* accounts the handshake tells: 0..MaxAccounts
MaxFutures == 3     \* pending results the wrapper makes: the futures 1..MaxFutures
MaxBars == 2        \* bars a BarDataList holds at most

\* ------------------------------------------------------------ order status
PendingSubmit == "PendingSubmit"
PendingCancel == "PendingCancel"
Submitted == "Submitted"
ApiCancelled == "ApiCancelled"
Cancelled == "Cancelled"
Filled == "Filled"
Inactive == "Inactive"

\* OrderStatus.DoneStates (ib_async/order.py), as the specification lists it.
DoneStates == {Filled, Cancelled, ApiCancelled, Inactive}

\* The statuses the server reports through the decoder in this model.
ServerStatuses == {Submitted, Filled, Inactive}

\* Trade.isDone(): the status is a Done state.
isDone(trade) == trade.status \in DoneStates

\* ------------------------------------------------------------------- state
VARIABLES
    clientId,   \* wrapper.clientId: the session's client id
    reqIdSeq,   \* the client's next request id (client.getReqId)
    trades,     \* wrapper.trades: order key -> Trade
    old,        \* trades and reqIdSeq as the last operation found them
    op,         \* the last operation
    arg,        \* the arguments of the last call, as the caller passed them
    order,      \* the order object of the last call, as the call left it
    ret,        \* what the last call returned
    raised,     \* the last call raised (AssertionError)
    emitted,    \* events emitted by the last operation, in order
    sent,       \* requests the last call handed to the client, in order
    tickers,    \* wrapper.tickers: the contracts that have a Ticker
    ticker2ReqId,       \* wrapper.ticker2ReqId: <<kind, contract>> -> reqId
    pnlKey2ReqId,       \* wrapper.pnlKey2ReqId: (account, modelCode) -> reqId
    reqId2PnL,          \* wrapper.reqId2PnL: reqId -> PnL
    pnlSingleKey2ReqId, \* wrapper.pnlSingleKey2ReqId: (account, modelCode, conId) -> reqId
    reqId2PnlSingle,    \* wrapper.reqId2PnlSingle: reqId -> PnLSingle
    logged,     \* the errors the last P&L call logged
    pc,         \* where connectAsync stands
    transport,  \* the client's connection: its state and what the handshake told
    tasks,      \* the startup requests of connectAsync, in the order of issue
    errors,     \* connectAsync's list of timeout messages
    session,    \* the session data the wrapper holds, by the request that loads it
    downloads,  \* per startup request: the account download the server runs for it
    seen,       \* what the handlers of the events the facade emitted last observed
    futures,    \* wrapper._futures: request key -> the pending result (a future)
    futureSeq,  \* the futures made so far are 1..futureSeq-1
    done,       \* the futures that have their result
    bars,       \* the BarDataList made by the request reqId: reqId -> its bars
    reqId2Subscriber,   \* wrapper.reqId2Subscriber: the reqIds with a subscribed container
    calls,      \* the callers' requests: what each caller awaits or last got
    wshMetaReqId,   \* wrapper.wshMetaReqId: the WSH metadata request, 0 for none
    wshEventReqId,  \* wrapper.wshEventReqId: the WSH event request, 0 for none
    wire        \* the WSH requests sent to the server and not cancelled there

tickerVars == <<tickers, ticker2ReqId>>
pnlVars == <<pnlKey2ReqId, reqId2PnL, pnlSingleKey2ReqId, reqId2PnlSingle, logged>>
attemptVars == <<pc, transport, tasks, errors, session, downloads>>
connVars == <<pc, transport, tasks, errors, session, downloads, seen>>

wshVars == <<wshMetaReqId, wshEventReqId, wire>>
reqVars == <<futures, futureSeq, done, bars, reqId2Subscriber, calls, wshVars>>

vars == <<clientId, reqIdSeq, trades, old, op, arg, order, ret, raised, emitted, sent,
          tickerVars, pnlVars, connVars, reqVars>>

\* connect(..., clientId: int = 1, ...): the session runs under the default id.
DefaultClientId == 1

\* The client ids a caller's order may carry: Order()'s default and the session's.
ClientIds == {0, DefaultClientId}
PermIds == {0, 1}

\* The fields of an Order the lifecycle reads or writes.
OrderFields == [orderId: 0..MaxOrderId, clientId: ClientIds, permId: PermIds,
                transmit: BOOLEAN]

\* Order(): the defaults of a new order object.
Order == [orderId |-> 0, clientId |-> 0, permId |-> 0, transmit |-> TRUE]

\* "No Trade" (Python None) where a key or a Trade is expected.
None == <<-1, -1, -1>>

\* Wrapper.orderKey(clientId, orderId, permId): the orderId, unique per
\* client, identifies the Trade; an order without orderId goes by its permId.
orderKey(cId, orderId, permId) ==
    IF orderId <= 0 THEN <<0, 0, permId>> ELSE <<cId, orderId, 0>>

\* client.getReqId(): the next id of the sequence.
getReqId == reqIdSeq

\* wrapper.trades of a fresh session: no Trade under any key.
NoTrades == [k \in {} |-> None]

TradeLogEntry(status, message) == [status |-> status, message |-> message]

\* Log entries and fills held by the Trades under the keys `keys`.
RECURSIVE Entries(_, _)
Entries(ts, keys) ==
    IF keys = {} THEN 0
    ELSE LET k == CHOOSE x \in keys : TRUE
         IN  Len(ts[k].log) + Len(ts[k].fills) + Entries(ts, keys \ {k})

\* Room for one more log entry or fill.
Room == Entries(trades, DOMAIN trades) < MaxEntries

\* An empty dict.
Empty == [k \in {} |-> 0]

\* A dict without one key: dict.pop(key).
Without(dict, key) == [k \in DOMAIN dict \ {key} |-> dict[k]]

\* The wrapper after reset(): no Ticker and no P&L subscription.
NoSubscriptions ==
    /\ tickers = {}
    /\ ticker2ReqId = Empty
    /\ pnlKey2ReqId = Empty
    /\ reqId2PnL = Empty
    /\ pnlSingleKey2ReqId = Empty
    /\ reqId2PnlSingle = Empty
    /\ logged = <<>>

\* The callers of this model, each a task of the event loop.
Callers == {1, 2}

\* A request key: a well-known name, or a request id under no name.
nameKey(name) == <<name, 0>>
reqKey(reqId) == <<"", reqId>>

\* A caller that has made no request.
NoCall ==
    [name |-> "", key |-> nameKey(""), future |-> 0, state |-> "idle",
     keepUpToDate |-> FALSE, timeout |-> 0]

\* The wrapper after reset() and callers that have asked nothing: no pending
\* request, no subscribed container.
NoRequests ==
    /\ futures = Empty
    /\ futureSeq = 1
    /\ done = {}
    /\ bars = Empty
    /\ reqId2Subscriber = {}
    /\ calls = [caller \in Callers |-> NoCall]
    /\ wshMetaReqId = 0
    /\ wshEventReqId = 0
    /\ wire = {}

\* The client before a connection: no accounts, no server version.
NoTransport == [state |-> "disconnected", accounts |-> <<>>, serverVersion |-> 0]

\* The facade has emitted no event yet: no handler has observed anything.
NotSeen ==
    [connected |-> FALSE, trades |-> NoTrades, tickers |-> {},
     pnlKey2ReqId |-> Empty, session |-> {}]

\* A session whose connect has returned: nothing of the startup is in flight.
SessionUp ==
    /\ pc = "connected"
    /\ transport = [NoTransport EXCEPT !.state = "ready"]
    /\ tasks = <<>>
    /\ errors = <<>>
    /\ session = {}
    /\ downloads = <<>>
    /\ seen = NotSeen

\* What an operation finds: the Trades and the next request id.
Before == [trades |-> trades, reqIdSeq |-> reqIdSeq]

Init ==
    /\ clientId = DefaultClientId
    /\ reqIdSeq = 1
    /\ trades = NoTrades
    /\ old = [trades |-> NoTrades, reqIdSeq |-> 1]
    /\ op = "init"
    /\ arg = Order
    /\ order = Order
    /\ ret = None
    /\ raised = FALSE
    /\ emitted = <<>>
    /\ sent = <<>>
    /\ NoSubscriptions
    /\ NoRequests
    /\ SessionUp

\* An emitted event: the channel and the Trade (by key) it carries.
Emit(event, key) == [event |-> event, trade |-> key]

\* What a handler observes that runs while wrapper.trades is `ts`.
observed(ts) ==
    [connected |-> transport.state = "ready", trades |-> ts, tickers |-> tickers,
     pnlKey2ReqId |-> pnlKey2ReqId, session |-> session]

\* ------------------------------------------------------------- placeOrder
\* orderId = order.orderId or self.client.getReqId()
placeOrderId(o) == IF o.orderId # 0 THEN o.orderId ELSE getReqId

\* key = self.wrapper.orderKey(self.wrapper.clientId, orderId, order.permId)
placeOrderKey(o) == orderKey(clientId, placeOrderId(o), o.permId)

\* Variant: every placeOrder is taken for a new order.
placeOrderIsModifyNever(o) == FALSE

\* Variant: a Trade that is done does not count as an existing Trade.
placeOrderIsModifyLive(o) ==
    /\ placeOrderKey(o) \in DOMAIN trades
    /\ ~isDone(trades[placeOrderKey(o)])

\* trade = self.wrapper.trades.get(key); if trade: (a Trade is always truthy)
placeOrderIsModify(o) == placeOrderKey(o) \in DOMAIN trades

\* assert trade.orderStatus.status not in OrderStatus.DoneStates
placeOrderAssertFails(o) ==
    /\ placeOrderIsModify(o)
    /\ trades[placeOrderKey(o)].status \in DoneStates

\* Variant: the Modify entry is logged with the initial status.
placeOrderModifiedPending(trade) ==
    [trade EXCEPT !.log = Append(trade.log, TradeLogEntry(PendingSubmit, "Modify"))]

\* logEntry = TradeLogEntry(now, trade.orderStatus.status, "Modify")
\* trade.log.append(logEntry)
placeOrderModified(trade) ==
    [trade EXCEPT !.log = Append(trade.log, TradeLogEntry(trade.status, "Modify"))]

\* trade.modifyEvent.emit(trade); self.orderModifyEvent.emit(trade)
placeOrderModifyEvents(key) ==
    <<Emit("trade.modifyEvent", key), Emit("orderModifyEvent", key)>>

\* Variant: the order keeps the client id the caller wrote on it.
placeOrderStampedNoClient(o) == [o EXCEPT !.orderId = placeOrderId(o)]

\* order.clientId = self.wrapper.clientId; order.orderId = orderId
placeOrderStamped(o) ==
    [o EXCEPT !.clientId = clientId, !.orderId = placeOrderId(o)]

\* orderStatus = OrderStatus(orderId=orderId, status=OrderStatus.PendingSubmit)
\* trade = Trade(contract, order, orderStatus, [], [logEntry])
placeOrderNewTrade ==
    [status |-> PendingSubmit, fills |-> <<>>,
     log |-> <<TradeLogEntry(PendingSubmit, "")>>]

\* self.newOrderEvent.emit(trade)
placeOrderNewEvents(key) == <<Emit("newOrderEvent", key)>>

\* self.wrapper.trades[key] = trade
placeOrderRegistered(key) == (key :> placeOrderNewTrade) @@ trades

\* What the handlers of newOrderEvent observe: emit() comes after the Trade
\* is registered.
placeOrderNewSeen(key) == observed(placeOrderRegistered(key))

\* What the handlers of the modify events observe: they are emitted after the
\* log entry is appended.
placeOrderModifySeen(key) ==
    observed([trades EXCEPT ![key] = placeOrderModified(trades[key])])

\* Variant: the assertion is made before the order is sent.
placeOrderSentChecked(o) ==
    IF placeOrderAssertFails(o)
    THEN <<>>
    ELSE <<[msg |-> "placeOrder", orderId |-> placeOrderId(o)]>>

\* self.client.placeOrder(orderId, contract, order): sent before the Trade is
\* looked up and before the assertion.
placeOrderSent(o) == <<[msg |-> "placeOrder", orderId |-> placeOrderId(o)]>>

\* IB.placeOrder(contract, order), called with the order `o`.
placeOrder(o) ==
    LET orderId == placeOrderId(o)
        key == placeOrderKey(o)
    IN  /\ o.orderId = 0 => reqIdSeq <= MaxReqId
        /\ reqIdSeq' = IF o.orderId = 0 THEN reqIdSeq + 1 ELSE reqIdSeq
        /\ sent' = placeOrderSent(o)
        /\ old' = Before
        /\ op' = "placeOrder"
        /\ arg' = o
        /\ IF placeOrderIsModify(o)
           THEN IF placeOrderAssertFails(o)
                THEN /\ raised' = TRUE
                     /\ ret' = None
                     /\ trades' = trades
                     /\ emitted' = <<>>
                     /\ seen' = seen
                     /\ order' = o
                ELSE /\ Room
                     /\ raised' = FALSE
                     /\ ret' = key
                     /\ trades' = [trades EXCEPT ![key] = placeOrderModified(trades[key])]
                     /\ emitted' = placeOrderModifyEvents(key)
                     /\ seen' = placeOrderModifySeen(key)
                     /\ order' = o
           ELSE /\ Room
                /\ raised' = FALSE
                /\ ret' = key
                /\ trades' = placeOrderRegistered(key)
                /\ emitted' = placeOrderNewEvents(key)
                /\ seen' = placeOrderNewSeen(key)
                /\ order' = placeOrderStamped(o)
        /\ UNCHANGED <<clientId, tickerVars, pnlVars, attemptVars, reqVars>>

PlaceOrder == \E o \in OrderFields : placeOrder(o)

\* ------------------------------------------------------------ cancelOrder
\* Variant: the key is derived from the session's client id, as in placeOrder.
cancelOrderKeySession(o) == orderKey(clientId, o.orderId, o.permId)

\* key = self.wrapper.orderKey(order.clientId, order.orderId, order.permId)
cancelOrderKey(o) == orderKey(o.clientId, o.orderId, o.permId)

\* Variant: the order's transmit flag is not looked at.
cancelOrderNewStatusNoTransmit(status, transmit) ==
    IF status = PendingSubmit \/ status = Inactive THEN Cancelled ELSE PendingCancel

\* The status cancelOrder gives a Trade that is not done.
cancelOrderNewStatus(status, transmit) ==
    IF (status = PendingSubmit /\ ~transmit) \/ status = Inactive
    THEN Cancelled
    ELSE PendingCancel

\* Variant: the status is set and no log entry is appended.
cancelOrderUpdatedNoLog(trade, newStatus) == [trade EXCEPT !.status = newStatus]

\* Variant: the log entry carries the status the Trade had before the cancel.
cancelOrderUpdatedLogOld(trade, newStatus) ==
    [trade EXCEPT !.log = Append(trade.log, TradeLogEntry(trade.status, "")),
                  !.status = newStatus]

\* trade.log.append(logEntry); trade.orderStatus.status = newStatus
cancelOrderUpdated(trade, newStatus) ==
    [trade EXCEPT !.log = Append(trade.log, TradeLogEntry(newStatus, "")),
                  !.status = newStatus]

\* Variant: the Trade's cancelledEvent is emitted whatever the new status.
cancelOrderEventsAlwaysCancelled(key, newStatus) ==
    <<Emit("trade.cancelEvent", key), Emit("trade.statusEvent", key),
      Emit("cancelOrderEvent", key), Emit("orderStatusEvent", key),
      Emit("trade.cancelledEvent", key)>>

\* The events cancelOrder emits for a Trade that was not done.
cancelOrderEvents(key, newStatus) ==
    <<Emit("trade.cancelEvent", key), Emit("trade.statusEvent", key),
      Emit("cancelOrderEvent", key), Emit("orderStatusEvent", key)>>
    \o (IF newStatus = Cancelled THEN <<Emit("trade.cancelledEvent", key)>> ELSE <<>>)

\* What the handlers of cancelOrder's events observe: all five are emitted
\* after the log entry is appended and the status is set.
cancelOrderSeenBefore(key, newStatus) == observed(trades)
cancelOrderSeen(key, newStatus) ==
    observed([trades EXCEPT ![key] = cancelOrderUpdated(trades[key], newStatus)])

\* Variant: the isDone() test is missing.
cancelOrderActsOnDone(key) == key \in DOMAIN trades

\* Variant: the isDone() test is inverted.
cancelOrderActsInverted(key) == key \in DOMAIN trades /\ isDone(trades[key])

\* Variant: a Trade that already awaits its cancellation is left alone.
cancelOrderActsOnce(key) ==
    /\ key \in DOMAIN trades
    /\ ~isDone(trades[key])
    /\ trades[key].status # PendingCancel

\* if trade: if not trade.isDone(): ...
cancelOrderActs(key) == key \in DOMAIN trades /\ ~isDone(trades[key])

\* Variant: the request is sent only for a Trade the call acts upon.
cancelOrderSentIfLive(o) ==
    IF cancelOrderActs(cancelOrderKey(o))
    THEN <<[msg |-> "cancelOrder", orderId |-> o.orderId]>>
    ELSE <<>>

\* self.client.cancelOrder(order.orderId, manualCancelOrderTime): the first
\* statement, before the Trade is looked up.
cancelOrderSent(o) == <<[msg |-> "cancelOrder", orderId |-> o.orderId]>>

\* IB.cancelOrder(order), called with the order `o`.
cancelOrder(o) ==
    LET key == cancelOrderKey(o)
    IN  /\ sent' = cancelOrderSent(o)
        /\ raised' = FALSE
        /\ old' = Before
        /\ op' = "cancelOrder"
        /\ arg' = o
        /\ order' = o
        /\ ret' = IF key \in DOMAIN trades THEN key ELSE None
        /\ IF cancelOrderActs(key)
           THEN LET newStatus == cancelOrderNewStatus(trades[key].status, o.transmit)
                IN  /\ Room
                    /\ trades' = [trades EXCEPT ![key] = cancelOrderUpdated(trades[key], newStatus)]
                    /\ emitted' = cancelOrderEvents(key, newStatus)
                    /\ seen' = cancelOrderSeen(key, newStatus)
           ELSE /\ trades' = trades
                /\ emitted' = <<>>
                /\ seen' = seen
        /\ UNCHANGED <<clientId, reqIdSeq, tickerVars, pnlVars, attemptVars, reqVars>>

CancelOrder == \E o \in OrderFields : cancelOrder(o)

\* ----------------------------------------------------------- bracketOrder
\* LimitOrder(action, totalQuantity, lmtPrice, **kwargs) (ib_async/order.py)
LimitOrder(action, totalQuantity, lmtPrice, orderId, transmit, parentId) ==
    [orderType |-> "LMT", action |-> action, totalQuantity |-> totalQuantity,
     lmtPrice |-> lmtPrice, auxPrice |-> 0, orderId |-> orderId,
     transmit |-> transmit, parentId |-> parentId]

\* StopOrder(action, totalQuantity, stopPrice, **kwargs) (ib_async/order.py)
StopOrder(action, totalQuantity, stopPrice, orderId, transmit, parentId) ==
    [orderType |-> "STP", action |-> action, totalQuantity |-> totalQuantity,
     lmtPrice |-> 0, auxPrice |-> stopPrice, orderId |-> orderId,
     transmit |-> transmit, parentId |-> parentId]

\* reverseAction = "BUY" if action == "SELL" else "SELL"
reverseAction(action) == IF action = "SELL" THEN "BUY" ELSE "SELL"

\* parent = LimitOrder(action, quantity, limitPrice, orderId=getReqId(), transmit=False)
bracketParent(action, quantity, limitPrice) ==
    LimitOrder(action, quantity, limitPrice, getReqId, FALSE, 0)

\* Variant: the take-profit order is marked to transmit.
bracketTakeProfitTransmits(action, quantity, takeProfitPrice) ==
    LimitOrder(reverseAction(action), quantity, takeProfitPrice, getReqId + 1, TRUE,
               bracketParent(action, quantity, 0).orderId)

\* takeProfit = LimitOrder(reverseAction, quantity, takeProfitPrice,
\*     orderId=getReqId(), transmit=False, parentId=parent.orderId)
bracketTakeProfit(action, quantity, takeProfitPrice) ==
    LimitOrder(reverseAction(action), quantity, takeProfitPrice, getReqId + 1, FALSE,
               bracketParent(action, quantity, 0).orderId)

\* stopLoss = StopOrder(reverseAction, quantity, stopLossPrice,
\*     orderId=getReqId(), transmit=True, parentId=parent.orderId)
bracketStopLoss(action, quantity, stopLossPrice) ==
    StopOrder(reverseAction(action), quantity, stopLossPrice, getReqId + 2, TRUE,
              bracketParent(action, quantity, 0).orderId)

\* The inputs of bracketOrder in this model.
Actions == {"BUY", "SELL", "HOLD"}
Quantities == {100}
BracketPrices == {<<10, 11, 9>>, <<10, 9, 11>>}

\* IB.bracketOrder(action, quantity, limitPrice, takeProfitPrice, stopLossPrice)
bracketOrder(action, quantity, prices) ==
    /\ old' = Before
    /\ op' = "bracketOrder"
    /\ arg' = [action |-> action, quantity |-> quantity, prices |-> prices]
    /\ order' = Order
    /\ emitted' = <<>>
    /\ sent' = <<>>
    /\ IF action \notin {"BUY", "SELL"}
       THEN /\ raised' = TRUE
            /\ ret' = None
            /\ reqIdSeq' = reqIdSeq
       ELSE /\ reqIdSeq + 2 <= MaxReqId
            /\ raised' = FALSE
            /\ ret' = <<bracketParent(action, quantity, prices[1]),
                        bracketTakeProfit(action, quantity, prices[2]),
                        bracketStopLoss(action, quantity, prices[3])>>
            /\ reqIdSeq' = reqIdSeq + 3
    /\ UNCHANGED <<clientId, trades, tickerVars, pnlVars, connVars, reqVars>>

BracketOrder ==
    \E action \in Actions, quantity \in Quantities, prices \in BracketPrices :
        bracketOrder(action, quantity, prices)

\* ---------------------------------------------------------------- decoder
\* Wrapper.orderStatus: the server reports a status for a Trade that is not done.
orderStatus(key, status) ==
    /\ key \in DOMAIN trades
    /\ ~isDone(trades[key])
    /\ status # trades[key].status
    /\ Room
    /\ trades' = [trades EXCEPT ![key].status = status,
                                ![key].log = Append(@, TradeLogEntry(status, ""))]
    /\ emitted' = <<Emit("orderStatusEvent", key)>>
    /\ old' = Before
    /\ op' = "orderStatus"
    /\ arg' = Order
    /\ order' = Order
    /\ ret' = None
    /\ raised' = FALSE
    /\ sent' = <<>>
    /\ UNCHANGED <<clientId, reqIdSeq, tickerVars, pnlVars, connVars, reqVars>>

OrderStatus == \E key \in DOMAIN trades, status \in ServerStatuses : orderStatus(key, status)

\* Wrapper.execDetails: the server reports a fill of a Trade.
execDetails(key) ==
    /\ key \in DOMAIN trades
    /\ Room
    /\ trades' = [trades EXCEPT ![key].fills = Append(@, Len(@) + 1)]
    /\ emitted' = <<Emit("execDetailsEvent", key)>>
    /\ old' = Before
    /\ op' = "execDetails"
    /\ arg' = Order
    /\ order' = Order
    /\ ret' = None
    /\ raised' = FALSE
    /\ sent' = <<>>
    /\ UNCHANGED <<clientId, reqIdSeq, tickerVars, pnlVars, connVars, reqVars>>

ExecDetails == \E key \in DOMAIN trades : execDetails(key)

Next == PlaceOrder \/ CancelOrder \/ BracketOrder \/ OrderStatus \/ ExecDetails

Spec == Init /\ [][Next]_vars

\* ================================================================ tickers
\* The contracts of the Ticker operations, each standing for its hash.
Contracts == {"c1", "c2"}

\* The tickType of reqTickByTickData: 'Last', 'AllLast', 'BidAsk' or 'MidPoint'.
TickTypes == {"BidAsk"}

\* The stream kinds of a Ticker.
Kinds == {"mktData", "mktDepth"} \cup TickTypes

\* "No Ticker" (Python None) where a Ticker is expected.
NoTicker == ""

\* IB.ticker(contract): the Ticker of the contract, or None.
ticker(contract) == IF contract \in tickers THEN contract ELSE NoTicker

\* The kinds active on a Ticker in a registry.
ActiveKinds(registry, contract) == {kind \in Kinds : <<kind, contract>> \in DOMAIN registry}

\* Wrapper.startTicker(reqId, contract, kind): the Ticker of the contract is
\* looked up or created, the kind is activated under the reqId.
startTickerTickers(contract) == tickers \cup {contract}
startTickerReqIds(reqId, contract, kind) == (<<kind, contract>> :> reqId) @@ ticker2ReqId

\* Wrapper.endTicker(ticker, kind): the reqId of the kind, 0 if it is not
\* active; only that kind is deactivated, and a Ticker left without an active
\* kind leaves the registry.
endTicker(contract, kind) ==
    IF <<kind, contract>> \in DOMAIN ticker2ReqId THEN ticker2ReqId[<<kind, contract>>] ELSE 0
endTickerReqIds(contract, kind) == Without(ticker2ReqId, <<kind, contract>>)
endTickerTickers(contract, kind) ==
    IF ActiveKinds(endTickerReqIds(contract, kind), contract) = {}
    THEN tickers \ {contract}
    ELSE tickers

\* What a Ticker operation finds.
BeforeTicker == [tickers |-> tickers, ticker2ReqId |-> ticker2ReqId, reqIdSeq |-> reqIdSeq]

\* The kind reqMktData starts and the kind cancelMktData ends.
reqMktDataKind == "mktData"
cancelMktDataKindDepth == "mktDepth"
cancelMktDataKind == "mktData"

\* The kind reqMktDepth starts and the kind cancelMktDepth ends.
reqMktDepthKind == "mktDepth"
cancelMktDepthKind == "mktDepth"

\* What a Ticker operation leaves alone.
TickerFrame ==
    /\ order' = Order
    /\ raised' = FALSE
    /\ emitted' = <<>>
    /\ UNCHANGED <<clientId, trades, pnlVars, connVars, reqVars>>

\* The shared body of reqMktData, reqTickByTickData and reqMktDepth.
startStream(name, contract, tickType, kind) ==
    /\ reqIdSeq <= MaxReqId
    /\ LET reqId == getReqId IN
        /\ reqIdSeq' = reqIdSeq + 1
        /\ tickers' = startTickerTickers(contract)
        /\ ticker2ReqId' = startTickerReqIds(reqId, contract, kind)
        /\ sent' = <<[msg |-> name, reqId |-> reqId]>>
        /\ ret' = contract
    /\ old' = BeforeTicker
    /\ op' = name
    /\ arg' = [contract |-> contract, tickType |-> tickType]
    /\ TickerFrame

reqMktData(contract) == startStream("reqMktData", contract, "", reqMktDataKind)
reqTickByTickData(contract, tickType) ==
    startStream("reqTickByTickData", contract, tickType, tickType)
reqMktDepth(contract) == startStream("reqMktDepth", contract, "", reqMktDepthKind)

\* `if reqId:` of the cancel methods.
cancelStreamActsAlways(reqId) == TRUE
cancelStreamActs(reqId) == reqId # 0

\* The shared body of cancelMktData and cancelTickByTickData: the kind is
\* ended if the contract has a Ticker; the cancel goes out and True is
\* returned if the kind had a reqId.
cancelStream(name, contract, tickType, kind, results) ==
    LET reqId == IF ticker(contract) # NoTicker THEN endTicker(contract, kind) ELSE 0 IN
        /\ IF ticker(contract) # NoTicker
           THEN /\ tickers' = endTickerTickers(contract, kind)
                /\ ticker2ReqId' = endTickerReqIds(contract, kind)
           ELSE UNCHANGED <<tickers, ticker2ReqId>>
        /\ IF cancelStreamActs(reqId)
           THEN /\ sent' = <<[msg |-> name, reqId |-> reqId]>>
                /\ ret' = results[1]
           ELSE /\ sent' = <<>>
                /\ ret' = results[2]
        /\ old' = BeforeTicker
        /\ op' = name
        /\ arg' = [contract |-> contract, tickType |-> tickType]
        /\ UNCHANGED reqIdSeq
        /\ TickerFrame

cancelMktData(contract) ==
    cancelStream("cancelMktData", contract, "", cancelMktDataKind, <<"True", "False">>)
cancelTickByTickData(contract, tickType) ==
    cancelStream("cancelTickByTickData", contract, tickType, tickType, <<"True", "False">>)
\* cancelMktDepth returns nothing.
cancelMktDepth(contract) ==
    cancelStream("cancelMktDepth", contract, "", cancelMktDepthKind, <<"None", "None">>)

ReqMktData == \E contract \in Contracts : reqMktData(contract)
ReqTickByTickData ==
    \E contract \in Contracts, tickType \in TickTypes : reqTickByTickData(contract, tickType)
ReqMktDepth == \E contract \in Contracts : reqMktDepth(contract)
CancelMktData == \E contract \in Contracts : cancelMktData(contract)
CancelTickByTickData ==
    \E contract \in Contracts, tickType \in TickTypes : cancelTickByTickData(contract, tickType)
CancelMktDepth == \E contract \in Contracts : cancelMktDepth(contract)

NextTicker ==
    \/ ReqMktData
    \/ ReqTickByTickData
    \/ ReqMktDepth
    \/ CancelMktData
    \/ CancelTickByTickData
    \/ CancelMktDepth

SpecTicker == Init /\ [][NextTicker]_vars

\* ==================================================================== P&L
\* The accounts, model codes and contract ids of the P&L subscriptions.
Accounts == {"A1"}
ModelCodes == {"", "M"}
ConIds == {1}

\* PnL(account, modelCode) and PnLSingle(account, modelCode, conId): the
\* objects the subscriptions keep up to date.
PnL(account, modelCode) == [account |-> account, modelCode |-> modelCode]
PnLSingle(account, modelCode, conId) ==
    [account |-> account, modelCode |-> modelCode, conId |-> conId]

\* What a P&L operation finds.
BeforePnL ==
    [pnlKey2ReqId |-> pnlKey2ReqId, reqId2PnL |-> reqId2PnL,
     pnlSingleKey2ReqId |-> pnlSingleKey2ReqId, reqId2PnlSingle |-> reqId2PnlSingle,
     reqIdSeq |-> reqIdSeq]

\* What a P&L operation leaves alone.
PnLFrame ==
    /\ order' = Order
    /\ emitted' = <<>>
    /\ UNCHANGED <<clientId, trades, tickerVars, connVars, reqVars>>

\* `assert key not in self.wrapper.pnlKey2ReqId` of reqPnL.
reqPnLAssertNever(key) == FALSE
reqPnLAssertFails(key) == key \in DOMAIN pnlKey2ReqId

reqPnL(account, modelCode) ==
    LET key == <<account, modelCode>> IN
        /\ old' = BeforePnL
        /\ op' = "reqPnL"
        /\ arg' = [account |-> account, modelCode |-> modelCode, conId |-> 0]
        /\ logged' = <<>>
        /\ PnLFrame
        /\ UNCHANGED <<pnlSingleKey2ReqId, reqId2PnlSingle>>
        /\ IF reqPnLAssertFails(key)
           THEN /\ raised' = TRUE
                /\ ret' = None
                /\ sent' = <<>>
                /\ UNCHANGED <<reqIdSeq, pnlKey2ReqId, reqId2PnL>>
           ELSE /\ reqIdSeq <= MaxReqId
                /\ LET reqId == getReqId
                       pnl == PnL(account, modelCode)
                   IN  /\ reqIdSeq' = reqIdSeq + 1
                       /\ pnlKey2ReqId' = (key :> reqId) @@ pnlKey2ReqId
                       /\ reqId2PnL' = (reqId :> pnl) @@ reqId2PnL
                       /\ sent' = <<[msg |-> "reqPnL", reqId |-> reqId]>>
                       /\ ret' = pnl
                /\ raised' = FALSE

\* `if reqId:` of cancelPnL and cancelPnLSingle, None standing as 0.
cancelPnLActsAlways(reqId) == TRUE
cancelPnLActs(reqId) == reqId # 0

\* Variant: the PnL object stays registered under its reqId.
cancelPnLKept(reqId) == reqId2PnL

\* self.wrapper.reqId2PnL.pop(reqId, None)
cancelPnLPopped(reqId) == Without(reqId2PnL, reqId)

cancelPnL(account, modelCode) ==
    LET key == <<account, modelCode>>
        reqId == IF key \in DOMAIN pnlKey2ReqId THEN pnlKey2ReqId[key] ELSE 0
    IN  /\ old' = BeforePnL
        /\ op' = "cancelPnL"
        /\ arg' = [account |-> account, modelCode |-> modelCode, conId |-> 0]
        /\ PnLFrame
        /\ raised' = FALSE
        /\ ret' = None
        /\ pnlKey2ReqId' = Without(pnlKey2ReqId, key)
        /\ UNCHANGED <<reqIdSeq, pnlSingleKey2ReqId, reqId2PnlSingle>>
        /\ IF cancelPnLActs(reqId)
           THEN /\ sent' = <<[msg |-> "cancelPnL", reqId |-> reqId]>>
                /\ reqId2PnL' = cancelPnLPopped(reqId)
                /\ logged' = <<>>
           ELSE /\ sent' = <<>>
                /\ reqId2PnL' = reqId2PnL
                /\ logged' = <<"cancelPnL: No subscription">>

\* `assert key not in self.wrapper.pnlSingleKey2ReqId` of reqPnLSingle.
reqPnLSingleAssertFails(key) == key \in DOMAIN pnlSingleKey2ReqId

reqPnLSingle(account, modelCode, conId) ==
    LET key == <<account, modelCode, conId>> IN
        /\ old' = BeforePnL
        /\ op' = "reqPnLSingle"
        /\ arg' = [account |-> account, modelCode |-> modelCode, conId |-> conId]
        /\ logged' = <<>>
        /\ PnLFrame
        /\ UNCHANGED <<pnlKey2ReqId, reqId2PnL>>
        /\ IF reqPnLSingleAssertFails(key)
           THEN /\ raised' = TRUE
                /\ ret' = None
                /\ sent' = <<>>
                /\ UNCHANGED <<reqIdSeq, pnlSingleKey2ReqId, reqId2PnlSingle>>
           ELSE /\ reqIdSeq <= MaxReqId
                /\ LET reqId == getReqId
                       pnlSingle == PnLSingle(account, modelCode, conId)
                   IN  /\ reqIdSeq' = reqIdSeq + 1
                       /\ pnlSingleKey2ReqId' = (key :> reqId) @@ pnlSingleKey2ReqId
                       /\ reqId2PnlSingle' = (reqId :> pnlSingle) @@ reqId2PnlSingle
                       /\ sent' = <<[msg |-> "reqPnLSingle", reqId |-> reqId]>>
                       /\ ret' = pnlSingle
                /\ raised' = FALSE

cancelPnLSingle(account, modelCode, conId) ==
    LET key == <<account, modelCode, conId>>
        reqId == IF key \in DOMAIN pnlSingleKey2ReqId THEN pnlSingleKey2ReqId[key] ELSE 0
    IN  /\ old' = BeforePnL
        /\ op' = "cancelPnLSingle"
        /\ arg' = [account |-> account, modelCode |-> modelCode, conId |-> conId]
        /\ PnLFrame
        /\ raised' = FALSE
        /\ ret' = None
        /\ pnlSingleKey2ReqId' = Without(pnlSingleKey2ReqId, key)
        /\ UNCHANGED <<reqIdSeq, pnlKey2ReqId, reqId2PnL>>
        /\ IF cancelPnLActs(reqId)
           THEN /\ sent' = <<[msg |-> "cancelPnLSingle", reqId |-> reqId]>>
                /\ reqId2PnlSingle' = Without(reqId2PnlSingle, reqId)
                /\ logged' = <<>>
           ELSE /\ sent' = <<>>
                /\ reqId2PnlSingle' = reqId2PnlSingle
                /\ logged' = <<"cancelPnLSingle: No subscription">>

ReqPnL == \E account \in Accounts, modelCode \in ModelCodes : reqPnL(account, modelCode)
CancelPnL == \E account \in Accounts, modelCode \in ModelCodes : cancelPnL(account, modelCode)
ReqPnLSingle ==
    \E account \in Accounts, modelCode \in ModelCodes, conId \in ConIds :
        reqPnLSingle(account, modelCode, conId)
CancelPnLSingle ==
    \E account \in Accounts, modelCode \in ModelCodes, conId \in ConIds :
        cancelPnLSingle(account, modelCode, conId)

NextPnL == ReqPnL \/ CancelPnL \/ ReqPnLSingle \/ CancelPnLSingle

SpecPnL == Init /\ [][NextPnL]_vars

\* ================================================================ connect
\* connectAsync: the handshake, the startup requests and the events of one
\* connect attempt.  `arg` holds the arguments of the call, `tasks` the
\* startup requests in the order they were issued, `sent` what the attempt
\* handed to the client and `emitted` the events of the attempt, in order.

\* The accounts the handshake may tell, in the server's order.
AllAccounts == <<"A1", "A2", "A3", "A4">>
NoAccount == ""

\* class StartupFetch(Flag) and its two shorthands.
StartupFetch ==
    {"POSITIONS", "ORDERS_OPEN", "ORDERS_COMPLETE", "ACCOUNT_UPDATES",
     "SUB_ACCOUNT_UPDATES", "EXECUTIONS"}
StartupFetchNONE == {}
StartupFetchALL == StartupFetch

\* The fetchFields, timeouts and server versions of this model's attempts.
FetchFields ==
    {StartupFetchALL, StartupFetchNONE, StartupFetchALL \ {"EXECUTIONS"},
     {"ORDERS_OPEN", "EXECUTIONS"}}
DefaultTimeout == 4
Timeouts == {0, DefaultTimeout}
MinServerVersionCompletedOrders == 150
ServerVersions == {MinServerVersionCompletedOrders - 1, MinServerVersionCompletedOrders}

\* IB.MaxSyncedSubAccounts: the class default and a session that sets it to 1.
DefaultMaxSyncedSubAccounts == 50
MaxSyncedSubAccounts == {1, DefaultMaxSyncedSubAccounts}

\* The arguments of connectAsync, with the session's MaxSyncedSubAccounts.
ConnectArgs ==
    [clientId: ClientIds, timeout: Timeouts, readonly: BOOLEAN,
     account: {NoAccount, AllAccounts[1]}, raiseSyncErrors: BOOLEAN,
     fetchFields: FetchFields, MaxSyncedSubAccounts: MaxSyncedSubAccounts]

\* What connectAsync returns or raises: no exception, or the exception.
NoException == [exc |-> "", args |-> <<>>]
ConnectionError(args) == [exc |-> "ConnectionError", args |-> args]

\* The state a step of the attempt works on; reset tells that wrapper.reset()
\* ran in the step.
Now ==
    [pc |-> pc, transport |-> transport, tasks |-> tasks, errors |-> errors,
     session |-> session, downloads |-> downloads, emitted |-> emitted,
     sent |-> sent, raised |-> raised, ret |-> ret, reqIdSeq |-> reqIdSeq,
     seen |-> seen, old |-> old, reset |-> FALSE]

Become(s) ==
    /\ pc' = s.pc
    /\ transport' = s.transport
    /\ tasks' = s.tasks
    /\ errors' = s.errors
    /\ session' = s.session
    /\ downloads' = s.downloads
    /\ emitted' = s.emitted
    /\ sent' = s.sent
    /\ raised' = s.raised
    /\ ret' = s.ret
    /\ reqIdSeq' = s.reqIdSeq
    /\ seen' = s.seen
    /\ old' = s.old
    /\ trades' = IF s.reset THEN NoTrades ELSE trades
    /\ tickers' = IF s.reset THEN {} ELSE tickers
    /\ ticker2ReqId' = IF s.reset THEN Empty ELSE ticker2ReqId
    /\ pnlKey2ReqId' = IF s.reset THEN Empty ELSE pnlKey2ReqId
    /\ reqId2PnL' = IF s.reset THEN Empty ELSE reqId2PnL
    /\ pnlSingleKey2ReqId' = IF s.reset THEN Empty ELSE pnlSingleKey2ReqId
    /\ reqId2PnlSingle' = IF s.reset THEN Empty ELSE reqId2PnlSingle
    /\ futures' = IF s.reset THEN Empty ELSE futures
    /\ reqId2Subscriber' = IF s.reset THEN {} ELSE reqId2Subscriber
    /\ UNCHANGED <<order, logged, futureSeq, done, bars, calls, wshVars>>

\* Wrapper.reset(): all state of the connection is cleared.
reset(s) == [s EXCEPT !.session = {}, !.reset = TRUE]

\* client.isConnected() and client.isReady().
isConnected(s) == s.transport.state = "ready"
isReady(s) == s.transport.state = "ready"

\* What a handler that runs now observes: the client's connection and the
\* wrapper's state, emptied if reset() has run.
view(s) ==
    [connected |-> isConnected(s),
     trades |-> IF s.reset THEN NoTrades ELSE trades,
     tickers |-> IF s.reset THEN {} ELSE tickers,
     pnlKey2ReqId |-> IF s.reset THEN Empty ELSE pnlKey2ReqId,
     session |-> s.session]

\* self.client.disconnect(): the client closes the connection.
clientDisconnect(s) == [s EXCEPT !.transport.state = "disconnected"]

\* self.disconnectedEvent.emit(): the handlers run within the call.
emitDisconnected(s) ==
    [s EXCEPT !.emitted = Append(@, "disconnectedEvent"), !.seen = view(s)]

\* IB.disconnect(): None if the client is not connected; else the client
\* disconnects, disconnectedEvent is emitted, the wrapper is reset and the
\* status line is returned.
disconnectNoReset(s) ==
    IF ~isConnected(s)
    THEN [s EXCEPT !.ret = "None"]
    ELSE [emitDisconnected(clientDisconnect(s)) EXCEPT !.ret = "status"]
disconnectResetFirst(s) ==
    IF ~isConnected(s)
    THEN [s EXCEPT !.ret = "None"]
    ELSE [emitDisconnected(reset(clientDisconnect(s))) EXCEPT !.ret = "status"]
disconnect(s) ==
    IF ~isConnected(s)
    THEN [s EXCEPT !.ret = "None"]
    ELSE [reset(emitDisconnected(clientDisconnect(s))) EXCEPT !.ret = "status"]

\* `except BaseException: self.disconnect(); raise`.
fail(s, exception) ==
    [disconnect(s) EXCEPT !.pc = "failed", !.raised = TRUE, !.ret = exception]

\* reqAccountUpdatesAsync(account): future = self.wrapper.startReq("accountValues")
\* -- the key of the pending result is the same for every account.
reqAccountUpdatesKey(account) == nameKey("accountValues")

\* Wrapper.accountDownloadEnd(account): the marker that ends the download of
\* an account ends the request under this key.
accountDownloadEndKey(account) == nameKey("accountValues")

\* A request that is no reqAccountUpdates: the server runs no download for it.
NoDownload == [account |-> NoAccount, key |-> nameKey(""), marker |-> "none", by |-> 0]

\* What the server owes a request: for reqAccountUpdates the data of the
\* account and, at its end, the marker; `by` will name the request whose
\* marker completed this one.
download(msg) ==
    IF msg.msg = "reqAccountUpdates"
    THEN [account |-> msg.account, key |-> reqAccountUpdatesKey(msg.account),
          marker |-> "due", by |-> 0]
    ELSE NoDownload

\* A startup request handed to the client: reqXAsync() starts a request and
\* sends it.
issue(s, phase, name, msg) ==
    [s EXCEPT !.tasks = Append(@, [phase |-> phase, name |-> name, status |-> "pending"]),
              !.downloads = Append(@, download(msg)),
              !.sent = Append(@, msg)]

\* `if raiseSyncErrors and len(errors) > 0`.
raisesSyncErrorsAlways(raiseSyncErrors, errs) == Len(errs) > 0
raisesSyncErrorsNever(raiseSyncErrors, errs) == FALSE
raisesSyncErrors(raiseSyncErrors, errs) == raiseSyncErrors /\ Len(errs) > 0

\* `if not self.client.isReady()`: the final check.
livenessFailsNever(s) == FALSE
livenessFails(s) == ~isReady(s)

\* The end of connectAsync: the aggregate error in strict mode, the final
\* check of the socket, connectedEvent.
finish(s) ==
    IF raisesSyncErrors(arg.raiseSyncErrors, s.errors)
    THEN fail(s, ConnectionError(s.errors))
    ELSE IF livenessFails(s)
         THEN fail(s, ConnectionError(<<<<"Socket connection broken while connecting">>>>))
         ELSE [s EXCEPT !.pc = "connected",
                        !.emitted = Append(@, "connectedEvent"),
                        !.ret = NoException]

\* `if fetchFields & StartupFetch.EXECUTIONS`.
requestsExecutionsAlways(fetchFields) == TRUE
requestsExecutions(fetchFields) == "EXECUTIONS" \in fetchFields

\* The executions request (reqExecutionsAsync takes a request id), or the end.
enterExecutions(s) ==
    IF requestsExecutions(arg.fetchFields)
    THEN [issue(s, "executions", "executions",
                [msg |-> "reqExecutions", reqId |-> s.reqIdSeq])
              EXCEPT !.pc = "executions", !.reqIdSeq = @ + 1]
    ELSE finish(s)

\* `if len(accounts) <= self.MaxSyncedSubAccounts`.
syncsAccountsAlways(accounts) == TRUE
syncsAccounts(accounts) == Len(accounts) <= arg.MaxSyncedSubAccounts

\* The account updates request of the i-th account, or what follows the loop.
enterAccount(s, i) ==
    LET accounts == s.transport.accounts IN
        IF syncsAccounts(accounts) /\ i <= Len(accounts)
        THEN [issue(s, "account", accounts[i],
                    [msg |-> "reqAccountUpdates", account |-> accounts[i]])
                  EXCEPT !.pc = "accounts"]
        ELSE enterExecutions(s)

\* The message of a request that timed out.
timeoutMsg(task) ==
    CASE task.phase = "fanout" -> <<task.name, "request timed out">>
      [] task.phase = "account" -> <<"reqAccountUpdatesAsync for", task.name, "timed out">>
      [] task.phase = "executions" -> <<"executions", "request timed out">>

\* `isinstance(resp, asyncio.TimeoutError)`.
isTimeout(task) == task.status = "timeout"

RECURSIVE timeoutMsgs(_)
\* The messages of the requests of a list that timed out, in order.
timeoutMsgs(ts) ==
    IF ts = <<>> THEN <<>>
    ELSE (IF isTimeout(Head(ts)) THEN <<timeoutMsg(Head(ts))>> ELSE <<>>)
         \o timeoutMsgs(Tail(ts))

\* The requests of the fan-out, by name, in the order of `reqs`.
fanoutReqsAll(account, serverVersion) ==
    <<"positions", "open orders", "completed orders", "account updates">>
fanoutReqs(account, serverVersion) ==
    SelectSeq(<<"positions", "open orders", "completed orders", "account updates">>,
              LAMBDA name :
                  \/ name = "positions"
                  \/ /\ name = "open orders"
                     /\ ~arg.readonly
                     /\ "ORDERS_OPEN" \in arg.fetchFields
                  \/ /\ name = "completed orders"
                     /\ ~arg.readonly
                     /\ serverVersion >= MinServerVersionCompletedOrders
                     /\ "ORDERS_COMPLETE" \in arg.fetchFields
                  \/ /\ name = "account updates"
                     /\ account # NoAccount
                     /\ "ACCOUNT_UPDATES" \in arg.fetchFields)

\* The wire request of a fan-out request.
fanoutMsg(name, account) ==
    CASE name = "positions" -> [msg |-> "reqPositions"]
      [] name = "open orders" -> [msg |-> "reqOpenOrders"]
      [] name = "completed orders" -> [msg |-> "reqCompletedOrders"]
      [] name = "account updates" -> [msg |-> "reqAccountUpdates", account |-> account]

RECURSIVE issueAll(_, _, _)
issueAll(s, names, account) ==
    IF names = <<>> THEN s
    ELSE issueAll(issue(s, "fanout", Head(names), fanoutMsg(Head(names), account)),
                  Tail(names), account)

\* connectAsync is called: wrapper.clientId is set, the handshake begins.
connectAsync(a) ==
    /\ pc = "idle"
    /\ clientId' = a.clientId
    /\ arg' = a
    /\ op' = "connectAsync"
    /\ Become([Now EXCEPT !.pc = "handshake", !.transport.state = "connecting"])

\* client.connectAsync returns: the API connection is there.  The requests of
\* the fan-out are issued and gathered.
handshakeDone(accounts, serverVersion) ==
    /\ pc = "handshake"
    /\ LET up == [Now EXCEPT !.transport = [state |-> "ready", accounts |-> accounts,
                                             serverVersion |-> serverVersion]]
           bound == IF arg.clientId = 0
                    THEN [up EXCEPT !.sent = Append(@, [msg |-> "reqAutoOpenOrders"])]
                    ELSE up
           account == IF arg.account = NoAccount /\ Len(accounts) = 1
                      THEN accounts[1]
                      ELSE arg.account
       IN  Become([issueAll(bound, fanoutReqs(account, serverVersion), account)
                       EXCEPT !.pc = "fanout"])
    /\ op' = "handshakeDone"
    /\ UNCHANGED <<clientId, arg>>

\* client.connectAsync raises: the connection is refused or times out.
handshakeFails ==
    /\ pc = "handshake"
    /\ Become(fail([Now EXCEPT !.transport.state = "disconnected"],
                   ConnectionError(<<<<"connect failed">>>>)))
    /\ op' = "handshakeFails"
    /\ UNCHANGED <<clientId, arg>>

\* `await`: what is awaited has completed or timed out.
awaitedNever(task) == TRUE
awaited(task) == task.status # "pending"

\* asyncio.gather(*tasks, return_exceptions=True) is done.
gatherDoneAny(ts) == \E i \in 1..Len(ts) : awaited(ts[i])
gatherDone(ts) == \A i \in 1..Len(ts) : awaited(ts[i])

\* The error of a request that failed for another reason than a timeout.
RequestError == [exc |-> "RequestError", args |-> <<>>]

\* The request has failed with an error that is no timeout.
failed(task) == task.status = "failed"

\* Variant: gather raises the first error of its requests.
gatherRaisesFirst(ts) == \E i \in 1..Len(ts) : failed(ts[i])

\* asyncio.gather(*tasks, return_exceptions=True): the errors of the requests
\* are returned among the results, none is raised.
gatherRaises(ts) == FALSE

\* `await asyncio.wait_for(req, timeout)` under `except asyncio.TimeoutError`:
\* an error that is no timeout leaves connectAsync through `except BaseException`.
awaitRaises(task) == failed(task)

\* The gather of the fan-out has returned: the timeouts are collected, the
\* loop over the accounts begins.
afterFanout ==
    /\ pc = "fanout"
    /\ gatherDone(tasks)
    /\ IF gatherRaises(tasks)
       THEN Become(fail(Now, RequestError))
       ELSE Become(enterAccount([Now EXCEPT !.errors = timeoutMsgs(tasks)], 1))
    /\ op' = "afterFanout"
    /\ UNCHANGED <<clientId, arg>>

\* The errors after the wait for one request.
errorsAfter(task) == errors \o timeoutMsgs(<<task>>)

\* The number of requests of the loop over the accounts so far.
accountsDone == Len(SelectSeq(tasks, LAMBDA task : task.phase = "account"))

\* The wait for an account's updates has returned: the next account.
afterAccount ==
    /\ pc = "accounts"
    /\ awaited(tasks[Len(tasks)])
    /\ IF awaitRaises(tasks[Len(tasks)])
       THEN Become(fail(Now, RequestError))
       ELSE Become(enterAccount([Now EXCEPT !.errors = errorsAfter(tasks[Len(tasks)])],
                                accountsDone + 1))
    /\ op' = "afterAccount"
    /\ UNCHANGED <<clientId, arg>>

\* The wait for the executions has returned: the end of connectAsync.
afterExecutions ==
    /\ pc = "executions"
    /\ awaited(tasks[Len(tasks)])
    /\ IF awaitRaises(tasks[Len(tasks)])
       THEN Become(fail(Now, RequestError))
       ELSE Become(finish([Now EXCEPT !.errors = errorsAfter(tasks[Len(tasks)])]))
    /\ op' = "afterExecutions"
    /\ UNCHANGED <<clientId, arg>>

\* The decoder completes a request: its data is in the wrapper.  (An account
\* updates request is completed by accountDownloadEnd.)
taskDone(i) ==
    /\ tasks[i].status = "pending"
    /\ downloads[i].marker = "none"
    /\ transport.state = "ready"
    /\ Become([Now EXCEPT !.tasks[i].status = "done",
                          !.session = @ \cup {tasks[i].name}])
    /\ op' = "taskDone"
    /\ UNCHANGED <<clientId, arg>>

\* The decoder reports an error for a request: its pending result gets the
\* error, which is no timeout.
taskFails(i) ==
    /\ tasks[i].status = "pending"
    /\ transport.state = "ready"
    /\ Become([Now EXCEPT !.tasks[i].status = "failed"])
    /\ op' = "taskFails"
    /\ UNCHANGED <<clientId, arg>>

\* The requests that wait for the result under the key `key`.
pendingUnder(key) ==
    {i \in 1..Len(tasks) : tasks[i].status = "pending" /\ downloads[i].key = key}

\* Wrapper._endReq(key) for the marker of the download of request j: the
\* request pending under the key is completed.
endReqBy(s, key, j) ==
    IF pendingUnder(key) = {} THEN s
    ELSE LET i == CHOOSE i \in pendingUnder(key) : TRUE
         IN  [s EXCEPT !.tasks[i].status = "done", !.downloads[i].by = j]

\* The server has sent the data of the account of request j and sends the
\* marker accountDownloadEnd; a request that timed out gets its download and
\* its marker all the same.
accountDownloadEnd(j) ==
    /\ pc \in {"fanout", "accounts", "executions"}
    /\ downloads[j].marker = "due"
    /\ transport.state = "ready"
    /\ Become(endReqBy([Now EXCEPT !.downloads[j].marker = "sent",
                                   !.session = @ \cup {tasks[j].name}],
                       accountDownloadEndKey(downloads[j].account), j))
    /\ op' = "accountDownloadEnd"
    /\ UNCHANGED <<clientId, arg>>

\* Variant: no wait of connectAsync has a deadline.
connectDeadlineNever(timeout) == FALSE

\* `timeout = timeout or None`: the waits of connectAsync have a deadline
\* unless timeout is 0.
connectDeadline(timeout) == timeout # 0

\* asyncio.wait_for(req, timeout): the deadline passes; `timeout or None`
\* waits without deadline for timeout 0.
taskTimeout(i) ==
    /\ tasks[i].status = "pending"
    /\ connectDeadline(arg.timeout)
    /\ Become([Now EXCEPT !.tasks[i].status = "timeout"])
    /\ op' = "taskTimeout"
    /\ UNCHANGED <<clientId, arg>>

\* The socket is lost while the attempt runs: the client is neither connected
\* nor ready, its apiEnd reaches disconnectedEvent, the wrapper is reset.
connectionLost ==
    /\ pc \in {"fanout", "accounts", "executions"}
    /\ transport.state = "ready"
    /\ Become(reset(emitDisconnected([Now EXCEPT !.transport.state = "broken"])))
    /\ op' = "connectionLost"
    /\ UNCHANGED <<clientId, arg>>

ConnectAsync == \E a \in ConnectArgs : connectAsync(a)
HandshakeDone ==
    \E n \in 0..MaxAccounts, serverVersion \in ServerVersions :
        handshakeDone(SubSeq(AllAccounts, 1, n), serverVersion)
TaskDone == \E i \in 1..Len(tasks) : taskDone(i)
TaskTimeout == \E i \in 1..Len(tasks) : taskTimeout(i)
AccountDownloadEnd == \E j \in 1..Len(tasks) : accountDownloadEnd(j)
TaskFails == \E i \in 1..Len(tasks) : taskFails(i)

InitConnect ==
    /\ clientId = DefaultClientId
    /\ reqIdSeq = 1
    /\ trades = NoTrades
    /\ old = [trades |-> NoTrades, reqIdSeq |-> 1]
    /\ op = "init"
    /\ arg = Order
    /\ order = Order
    /\ ret = NoException
    /\ raised = FALSE
    /\ emitted = <<>>
    /\ sent = <<>>
    /\ NoSubscriptions
    /\ NoRequests
    /\ pc = "idle"
    /\ transport = NoTransport
    /\ tasks = <<>>
    /\ errors = <<>>
    /\ session = {}
    /\ downloads = <<>>
    /\ seen = NotSeen

NextConnect ==
    \/ ConnectAsync
    \/ HandshakeDone
    \/ handshakeFails
    \/ afterFanout
    \/ afterAccount
    \/ afterExecutions
    \/ TaskDone
    \/ TaskTimeout
    \/ AccountDownloadEnd
    \/ connectionLost

SpecConnect == InitConnect /\ [][NextConnect]_vars

\* The attempts followed where a request may also fail: the session's own
\* client id, orders fetched, everything or nothing asked for at startup.
StartupArgs ==
    [clientId: {DefaultClientId}, timeout: Timeouts, readonly: {FALSE},
     account: {NoAccount}, raiseSyncErrors: BOOLEAN,
     fetchFields: {StartupFetchALL, StartupFetchNONE},
     MaxSyncedSubAccounts: {DefaultMaxSyncedSubAccounts}]

StartAttempt == \E a \in StartupArgs : connectAsync(a)

NextStartup ==
    \/ StartAttempt
    \/ HandshakeDone
    \/ handshakeFails
    \/ afterFanout
    \/ afterAccount
    \/ afterExecutions
    \/ TaskDone
    \/ TaskTimeout
    \/ AccountDownloadEnd
    \/ TaskFails
    \/ connectionLost

SpecStartup == InitConnect /\ [][NextStartup]_vars

\* The event loop runs connectAsync whenever what it awaits is settled, the
\* handshake ends one way or the other and a deadline that is set passes.
\* Nothing obliges the server to answer.
FairStartup ==
    /\ WF_vars(HandshakeDone \/ handshakeFails)
    /\ WF_vars(afterFanout)
    /\ WF_vars(afterAccount)
    /\ WF_vars(afterExecutions)
    /\ WF_vars(TaskTimeout)

SpecStartupLive == SpecStartup /\ FairStartup

\* =============================================================== requests
\* The requests that wait for an answer: a request registers a pending result
\* (a future) with the wrapper under its key, hands the request to the client
\* and awaits the future; the decoder completes the future when the answer
\* ends.  `calls` tells for each caller what it awaits, `bars` holds the bar
\* series the historical requests made, which the callers get by reference.

\* What a request finds.
BeforeRequest ==
    [trades |-> trades, reqIdSeq |-> reqIdSeq, futures |-> futures]

\* What a request or an answer leaves alone.
RequestFrame ==
    /\ raised' = FALSE
    /\ emitted' = <<>>
    /\ old' = BeforeRequest
    /\ UNCHANGED <<clientId, trades, tickerVars, pnlVars, connVars, wshVars>>

\* Wrapper.startReq(key): the pending result under the key; a key that has
\* one keeps it.
startReq(key) == IF key \in DOMAIN futures THEN futures[key] ELSE futureSeq

\* wrapper._futures after startReq(key).
startReqFutures(key) ==
    IF key \in DOMAIN futures THEN futures ELSE (key :> futureSeq) @@ futures

\* The futures made after startReq(key).
startReqSeq(key) == IF key \in DOMAIN futures THEN futureSeq ELSE futureSeq + 1

\* A caller that awaits the pending result of its request.
awaiting(name, key, keepUpToDate, timeout) ==
    [name |-> name, key |-> key, future |-> startReq(key), state |-> "awaiting",
     keepUpToDate |-> keepUpToDate, timeout |-> timeout]

\* The keys of reqOpenOrdersAsync, reqAllOpenOrdersAsync and reqPositionsAsync.
reqOpenOrdersKey == nameKey("openOrders")
reqAllOpenOrdersKeyOwn == nameKey("allOpenOrders")
reqAllOpenOrdersKey == nameKey("openOrders")
reqPositionsKey == nameKey("positions")

\* future = self.wrapper.startReq(key); self.client.reqX(); return future --
\* and the caller awaits the future.
request(caller, name, key, msg) ==
    /\ calls[caller].state # "awaiting"
    /\ futureSeq <= MaxFutures
    /\ futures' = startReqFutures(key)
    /\ futureSeq' = startReqSeq(key)
    /\ calls' = [calls EXCEPT ![caller] = awaiting(name, key, FALSE, 0)]
    /\ sent' = <<[msg |-> msg, reqId |-> 0]>>
    /\ ret' = startReq(key)
    /\ op' = name
    /\ arg' = [caller |-> caller, key |-> key]
    /\ order' = Order
    /\ RequestFrame
    /\ UNCHANGED <<reqIdSeq, done, bars, reqId2Subscriber>>

reqOpenOrdersAsync(caller) ==
    request(caller, "reqOpenOrdersAsync", reqOpenOrdersKey, "reqOpenOrders")
reqAllOpenOrdersAsync(caller) ==
    request(caller, "reqAllOpenOrdersAsync", reqAllOpenOrdersKey, "reqAllOpenOrders")
reqPositionsAsync(caller) ==
    request(caller, "reqPositionsAsync", reqPositionsKey, "reqPositions")

\* The callers after the future `future` got its result: who awaited it has
\* returned.
resumed(future) ==
    [caller \in Callers |->
        IF calls[caller].state = "awaiting" /\ calls[caller].future = future
        THEN [calls[caller] EXCEPT !.state = "returned"]
        ELSE calls[caller]]

\* Wrapper._endReq(key): the answer to the request has ended; the pending
\* result under the key is completed and leaves the registry.  An end for a
\* key without pending result is dropped.
endReq(key) ==
    /\ key \in DOMAIN futures
    /\ done' = done \cup {futures[key]}
    /\ futures' = Without(futures, key)
    /\ calls' = resumed(futures[key])
    /\ sent' = <<>>
    /\ ret' = futures[key]
    /\ op' = "endReq"
    /\ arg' = [caller |-> 0, key |-> key]
    /\ order' = Order
    /\ RequestFrame
    /\ UNCHANGED <<reqIdSeq, futureSeq, bars, reqId2Subscriber>>

\* reqHistoricalDataAsync(..., keepUpToDate: bool = False, ..., timeout: float = 60)
DefaultHistoricalTimeout == 60
HistoricalTimeouts == {0, DefaultHistoricalTimeout}

\* `if keepUpToDate: self.wrapper.startSubscription(reqId, bars, contract)`
startSubscription(reqId, keepUpToDate) ==
    IF keepUpToDate THEN reqId2Subscriber \cup {reqId} ELSE reqId2Subscriber

\* reqHistoricalDataAsync up to `await task`: the bar series is made and
\* registered as the container of the request, the request is sent.
reqHistoricalDataAsync(caller, keepUpToDate, timeout) ==
    /\ calls[caller].state # "awaiting"
    /\ reqIdSeq <= MaxReqId
    /\ futureSeq <= MaxFutures
    /\ LET reqId == getReqId IN
        /\ reqIdSeq' = reqIdSeq + 1
        /\ bars' = (reqId :> <<>>) @@ bars
        /\ futures' = startReqFutures(reqKey(reqId))
        /\ futureSeq' = startReqSeq(reqKey(reqId))
        /\ reqId2Subscriber' = startSubscription(reqId, keepUpToDate)
        /\ calls' = [calls EXCEPT ![caller] =
                        awaiting("reqHistoricalDataAsync", reqKey(reqId),
                                 keepUpToDate, timeout)]
        /\ sent' = <<[msg |-> "reqHistoricalData", reqId |-> reqId]>>
        /\ ret' = startReq(reqKey(reqId))
    /\ op' = "reqHistoricalDataAsync"
    /\ arg' = [caller |-> caller, key |-> reqKey(getReqId)]
    /\ order' = Order
    /\ RequestFrame
    /\ UNCHANGED done

\* `task = asyncio.wait_for(future, timeout) if timeout else future`: the
\* wait has a deadline unless timeout is 0.
hasDeadline(timeout) == timeout # 0

\* The registry after a caller gave up its pending result.
abandoned(key) == Without(futures, key)

\* `except asyncio.TimeoutError`: the deadline has passed; the request is
\* cancelled, the bars are cleared and returned.
historicalTimeout(caller) ==
    /\ calls[caller].name = "reqHistoricalDataAsync"
    /\ calls[caller].state = "awaiting"
    /\ hasDeadline(calls[caller].timeout)
    /\ LET reqId == calls[caller].key[2] IN
        /\ sent' = <<[msg |-> "cancelHistoricalData", reqId |-> reqId]>>
        /\ bars' = [bars EXCEPT ![reqId] = <<>>]
        /\ futures' = abandoned(calls[caller].key)
        /\ calls' = [calls EXCEPT ![caller].state = "timedOut"]
        /\ ret' = reqId
    /\ op' = "historicalTimeout"
    /\ arg' = [caller |-> caller, key |-> calls[caller].key]
    /\ order' = Order
    /\ RequestFrame
    /\ UNCHANGED <<reqIdSeq, futureSeq, done, reqId2Subscriber>>

\* A bar the decoder puts into the series `reqId`.
delivered(reqId) == [bars EXCEPT ![reqId] = Append(@, Len(@) + 1)]

\* What the decoder leaves alone when it delivers a bar.
DeliveryFrame ==
    /\ sent' = <<>>
    /\ ret' = 0
    /\ order' = Order
    /\ RequestFrame
    /\ UNCHANGED <<reqIdSeq, futures, futureSeq, done, reqId2Subscriber, calls>>

\* Wrapper.historicalData(reqId, bar): a bar of the answer goes into the
\* container of the pending request; a bar for a request that is not pending
\* is dropped.
historicalData(reqId) ==
    /\ reqKey(reqId) \in DOMAIN futures
    /\ reqId \in DOMAIN bars
    /\ Len(bars[reqId]) < MaxBars
    /\ bars' = delivered(reqId)
    /\ op' = "historicalData"
    /\ arg' = [caller |-> 0, key |-> reqKey(reqId)]
    /\ DeliveryFrame

\* Wrapper.historicalDataUpdate(reqId, bar): a bar of the live updates goes
\* into the container subscribed under reqId; without one it is dropped.
historicalDataUpdate(reqId) ==
    /\ reqId \in reqId2Subscriber
    /\ Len(bars[reqId]) < MaxBars
    /\ bars' = delivered(reqId)
    /\ op' = "historicalDataUpdate"
    /\ arg' = [caller |-> 0, key |-> reqKey(reqId)]
    /\ DeliveryFrame

\* The orders a caller passes to whatIfOrder, with their whatIf flag.
WhatIfOrders ==
    [orderId: 0..MaxOrderId, clientId: ClientIds, permId: {0}, transmit: {TRUE},
     whatIf: BOOLEAN]

\* whatIfOrder = copy.copy(order); whatIfOrder.whatIf = True
whatIfOrderCopy(o) == [o EXCEPT !.whatIf = TRUE]

\* The given order after the call: the flag was set on the copy.
whatIfOrderGivenMarked(o) == [o EXCEPT !.whatIf = TRUE]
whatIfOrderGiven(o) == o

\* IB.whatIfOrderAsync(contract, order), called with the order `o`, and the
\* caller awaits the future (whatIfOrder runs it to its end).
whatIfOrderAsync(caller, o) ==
    /\ calls[caller].state # "awaiting"
    /\ reqIdSeq <= MaxReqId
    /\ futureSeq <= MaxFutures
    /\ LET reqId == getReqId IN
        /\ reqIdSeq' = reqIdSeq + 1
        /\ futures' = startReqFutures(reqKey(reqId))
        /\ futureSeq' = startReqSeq(reqKey(reqId))
        /\ calls' = [calls EXCEPT ![caller] =
                        awaiting("whatIfOrderAsync", reqKey(reqId), FALSE, 0)]
        /\ sent' = <<[msg |-> "placeOrder", orderId |-> reqId,
                      order |-> whatIfOrderCopy(o)]>>
        /\ ret' = startReq(reqKey(reqId))
    /\ order' = whatIfOrderGiven(o)
    /\ op' = "whatIfOrder"
    /\ arg' = o
    /\ RequestFrame
    /\ UNCHANGED <<done, bars, reqId2Subscriber>>

WhatIfOrder == \E o \in WhatIfOrders : whatIfOrderAsync(1, o)

ReqOpenOrdersAsync == \E caller \in Callers : reqOpenOrdersAsync(caller)
ReqAllOpenOrdersAsync == \E caller \in Callers : reqAllOpenOrdersAsync(caller)
ReqPositionsAsync == \E caller \in Callers : reqPositionsAsync(caller)
ReqHistoricalDataAsync ==
    \E caller \in Callers, keepUpToDate \in BOOLEAN, timeout \in HistoricalTimeouts :
        reqHistoricalDataAsync(caller, keepUpToDate, timeout)
HistoricalTimeout == \E caller \in Callers : historicalTimeout(caller)
EndReq == \E key \in DOMAIN futures : endReq(key)
HistoricalData == \E reqId \in 1..MaxReqId : historicalData(reqId)
HistoricalDataUpdate == \E reqId \in 1..MaxReqId : historicalDataUpdate(reqId)

NextRequests ==
    \/ ReqOpenOrdersAsync
    \/ ReqAllOpenOrdersAsync
    \/ ReqPositionsAsync
    \/ ReqHistoricalDataAsync
    \/ HistoricalTimeout
    \/ EndReq
    \/ HistoricalData
    \/ HistoricalDataUpdate

SpecRequests == Init /\ [][NextRequests]_vars

\* ================================================================ session
\* A connected session in use: orders are placed, asked about (whatIfOrder)
\* and filled, a Ticker and a P&L subscription are started, the connection is
\* lost or the caller calls disconnect().  reqMktData and reqPnL register with the wrapper before they
\* hand their request to the client, so they leave their entries whether the
\* client is connected or not; placeOrder hands its request to the client
\* first, and the Trades of this model come from new orders placed through a
\* connected client.

\* What disconnect() finds.
BeforeDisconnect ==
    [connected |-> isConnected(Now), trades |-> trades, tickers |-> tickers,
     ticker2ReqId |-> ticker2ReqId, pnlKey2ReqId |-> pnlKey2ReqId,
     reqId2PnL |-> reqId2PnL, session |-> session, seen |-> seen,
     transport |-> transport, futures |-> futures]

\* The caller calls IB.disconnect().
Disconnect ==
    /\ Become(disconnect([Now EXCEPT !.old = BeforeDisconnect, !.emitted = <<>>,
                                     !.sent = <<>>, !.raised = FALSE]))
    /\ op' = "disconnect"
    /\ UNCHANGED <<clientId, arg>>

\* The socket of a session in use is lost: the client is no longer connected,
\* its apiEnd reaches disconnectedEvent, the wrapper is reset.
sessionLost ==
    /\ pc = "connected"
    /\ isConnected(Now)
    /\ Become(reset(emitDisconnected([Now EXCEPT !.transport.state = "broken",
                                                 !.old = BeforeDisconnect,
                                                 !.emitted = <<>>, !.sent = <<>>,
                                                 !.raised = FALSE])))
    /\ op' = "sessionLost"
    /\ UNCHANGED <<clientId, arg>>

NextSession ==
    \/ (isConnected(Now) /\ placeOrder(Order))
    \/ (isConnected(Now) /\ ExecDetails)
    \/ ReqMktData
    \/ ReqPnL
    \/ (isConnected(Now) /\ WhatIfOrder)
    \/ EndReq
    \/ Disconnect
    \/ sessionLost

SpecSession == Init /\ [][NextSession]_vars

\* ---------------------------------------------------------------- scanner
\* What a scanner operation finds.
BeforeScan ==
    [trades |-> trades, reqIdSeq |-> reqIdSeq, futures |-> futures,
     reqId2Subscriber |-> reqId2Subscriber]

\* What a scanner operation leaves alone.
ScanFrame ==
    /\ raised' = FALSE
    /\ emitted' = <<>>
    /\ order' = Order
    /\ old' = BeforeScan
    /\ UNCHANGED <<clientId, trades, tickerVars, pnlVars, connVars, bars, wshVars>>

\* IB.reqScannerSubscription(subscription): the scan list is made, subscribed
\* under a new request id and the request is sent; the list is returned.
reqScannerSubscription ==
    /\ reqIdSeq <= MaxReqId
    /\ reqIdSeq' = reqIdSeq + 1
    /\ reqId2Subscriber' = reqId2Subscriber \cup {getReqId}
    /\ sent' = <<[msg |-> "reqScannerSubscription", reqId |-> getReqId]>>
    /\ ret' = getReqId
    /\ op' = "reqScannerSubscription"
    /\ arg' = [caller |-> 0, key |-> reqKey(getReqId)]
    /\ ScanFrame
    /\ UNCHANGED <<futures, futureSeq, done, calls>>

\* self.wrapper.endSubscription(dataList) of cancelScannerSubscription.
endSubscription(reqId) == reqId2Subscriber \ {reqId}

\* IB.cancelScannerSubscription(dataList), the list being the one of reqId.
cancelScannerSubscription(reqId) ==
    /\ reqId < reqIdSeq
    /\ sent' = <<[msg |-> "cancelScannerSubscription", reqId |-> reqId]>>
    /\ reqId2Subscriber' = endSubscription(reqId)
    /\ ret' = 0
    /\ op' = "cancelScannerSubscription"
    /\ arg' = [caller |-> 0, key |-> reqKey(reqId)]
    /\ ScanFrame
    /\ UNCHANGED <<reqIdSeq, futures, futureSeq, done, calls>>

\* reqScannerDataAsync up to `await future`: reqScannerSubscription, then the
\* scan list becomes the container of a pending request under its reqId.
reqScannerDataAsync(caller) ==
    /\ calls[caller].state \notin {"awaiting", "woken"}
    /\ reqIdSeq <= MaxReqId
    /\ futureSeq <= MaxFutures
    /\ LET reqId == getReqId IN
        /\ reqIdSeq' = reqIdSeq + 1
        /\ reqId2Subscriber' = reqId2Subscriber \cup {reqId}
        /\ futures' = startReqFutures(reqKey(reqId))
        /\ futureSeq' = startReqSeq(reqKey(reqId))
        /\ calls' = [calls EXCEPT ![caller] =
                        awaiting("reqScannerDataAsync", reqKey(reqId), FALSE, 0)]
        /\ sent' = <<[msg |-> "reqScannerSubscription", reqId |-> reqId]>>
        /\ ret' = startReq(reqKey(reqId))
        /\ arg' = [caller |-> caller, key |-> reqKey(reqId)]
    /\ op' = "reqScannerDataAsync"
    /\ ScanFrame
    /\ UNCHANGED done

\* The callers after the future `future` got its result: who awaited it is
\* scheduled to go on after its `await`.
woken(future) ==
    [caller \in Callers |->
        IF calls[caller].state = "awaiting" /\ calls[caller].future = future
        THEN [calls[caller] EXCEPT !.state = "woken"]
        ELSE calls[caller]]

\* Wrapper.scannerDataEnd(reqId): the first list of results is complete; the
\* pending request under reqId, if any, is completed.
scannerDataEnd(reqId) ==
    /\ reqKey(reqId) \in DOMAIN futures
    /\ done' = done \cup {futures[reqKey(reqId)]}
    /\ futures' = Without(futures, reqKey(reqId))
    /\ calls' = woken(futures[reqKey(reqId)])
    /\ sent' = <<>>
    /\ ret' = futures[reqKey(reqId)]
    /\ op' = "scannerDataEnd"
    /\ arg' = [caller |-> 0, key |-> reqKey(reqId)]
    /\ ScanFrame
    /\ UNCHANGED <<reqIdSeq, futureSeq, reqId2Subscriber>>

\* reqScannerDataAsync after `await future`:
\* self.client.cancelScannerSubscription(dataList.reqId); return future.result()
reqScannerDataReturns(caller) ==
    /\ calls[caller].name = "reqScannerDataAsync"
    /\ calls[caller].state = "woken"
    /\ sent' = <<[msg |-> "cancelScannerSubscription", reqId |-> calls[caller].key[2]]>>
    /\ calls' = [calls EXCEPT ![caller].state = "returned"]
    /\ ret' = calls[caller].key[2]
    /\ op' = "reqScannerDataReturns"
    /\ arg' = [caller |-> caller, key |-> calls[caller].key]
    /\ ScanFrame
    /\ UNCHANGED <<reqIdSeq, futures, futureSeq, done, reqId2Subscriber>>

CancelScannerSubscription == \E reqId \in reqId2Subscriber : cancelScannerSubscription(reqId)
ReqScannerDataAsync == \E caller \in Callers : reqScannerDataAsync(caller)
ScannerDataEnd == \E reqId \in 1..MaxReqId : scannerDataEnd(reqId)
ReqScannerDataReturns == \E caller \in Callers : reqScannerDataReturns(caller)

NextScanner ==
    \/ reqScannerSubscription
    \/ CancelScannerSubscription
    \/ ReqScannerDataAsync
    \/ ScannerDataEnd
    \/ ReqScannerDataReturns

SpecScanner == Init /\ [][NextScanner]_vars

\* ------------------------------------------------------ Wall Street Horizon
\* What a WSH operation finds.
BeforeWsh ==
    [trades |-> trades, reqIdSeq |-> reqIdSeq, futures |-> futures,
     wshMetaReqId |-> wshMetaReqId, wshEventReqId |-> wshEventReqId, wire |-> wire]

\* The WSH state of wrapper and client while an operation runs: the stored
\* request ids, the requests on the wire that no cancel has followed, the next
\* request id and the messages the operation has sent so far.
WshNow ==
    [meta |-> wshMetaReqId, event |-> wshEventReqId, wire |-> wire,
     reqIdSeq |-> reqIdSeq, sent |-> <<>>]

\* The operation ends in the state w.
WshBecome(w) ==
    /\ wshMetaReqId' = w.meta
    /\ wshEventReqId' = w.event
    /\ wire' = w.wire
    /\ reqIdSeq' = w.reqIdSeq
    /\ sent' = w.sent
    /\ raised' = FALSE
    /\ emitted' = <<>>
    /\ order' = Order
    /\ old' = BeforeWsh
    /\ UNCHANGED <<clientId, trades, tickerVars, pnlVars, connVars, bars, reqId2Subscriber>>

\* A WSH request as the server holds it.
wshRequest(kind, reqId) == [kind |-> kind, reqId |-> reqId]

\* `if self.wrapper.wshMetaReqId:` -- a stored request id other than 0 means
\* a request is active.
wshActiveNever(reqId) == FALSE
wshActive(reqId) == reqId # 0

\* IB.reqWshMetaData(): warns if a request is active, else takes a request
\* id, stores it and sends the request.
reqWshMetaData(w) ==
    IF wshActive(w.meta) THEN w
    ELSE [w EXCEPT !.meta = w.reqIdSeq,
                   !.reqIdSeq = @ + 1,
                   !.wire = @ \cup {wshRequest("meta", w.reqIdSeq)},
                   !.sent = Append(@, [msg |-> "reqWshMetaData", reqId |-> w.reqIdSeq])]

\* IB.cancelWshMetaData(): warns if no request is active, else sends the
\* cancel of the stored id and clears it.
cancelWshMetaData(w) ==
    IF ~wshActive(w.meta) THEN w
    ELSE [w EXCEPT !.meta = 0,
                   !.wire = @ \ {wshRequest("meta", w.meta)},
                   !.sent = Append(@, [msg |-> "cancelWshMetaData", reqId |-> w.meta])]

\* IB.reqWshEventData(data).
reqWshEventData(w) ==
    IF wshActive(w.event) THEN w
    ELSE [w EXCEPT !.event = w.reqIdSeq,
                   !.reqIdSeq = @ + 1,
                   !.wire = @ \cup {wshRequest("event", w.reqIdSeq)},
                   !.sent = Append(@, [msg |-> "reqWshEventData", reqId |-> w.reqIdSeq])]

\* IB.cancelWshEventData().
cancelWshEventData(w) ==
    IF ~wshActive(w.event) THEN w
    ELSE [w EXCEPT !.event = 0,
                   !.wire = @ \ {wshRequest("event", w.event)},
                   !.sent = Append(@, [msg |-> "cancelWshEventData", reqId |-> w.event])]

\* The four operations called on their own.
wshCall(name, w) ==
    /\ w.reqIdSeq <= MaxReqId + 1
    /\ WshBecome(w)
    /\ ret' = 0
    /\ op' = name
    /\ arg' = [caller |-> 0, key |-> reqKey(0)]
    /\ UNCHANGED <<futures, futureSeq, done, calls>>

ReqWshMetaData == wshCall("reqWshMetaData", reqWshMetaData(WshNow))
CancelWshMetaData == wshCall("cancelWshMetaData", cancelWshMetaData(WshNow))
ReqWshEventData == wshCall("reqWshEventData", reqWshEventData(WshNow))
CancelWshEventData == wshCall("cancelWshEventData", cancelWshEventData(WshNow))

\* A get...Async up to `await future`: the state w after its cancel and
\* request, and the pending request under the stored id.
wshAwait(caller, name, w, reqId) ==
    /\ calls[caller].state \notin {"awaiting", "woken"}
    /\ w.reqIdSeq <= MaxReqId + 1
    /\ futureSeq <= MaxFutures
    /\ WshBecome(w)
    /\ futures' = startReqFutures(reqKey(reqId))
    /\ futureSeq' = startReqSeq(reqKey(reqId))
    /\ calls' = [calls EXCEPT ![caller] = awaiting(name, reqKey(reqId), FALSE, 0)]
    /\ ret' = startReq(reqKey(reqId))
    /\ op' = name
    /\ arg' = [caller |-> caller, key |-> reqKey(reqId)]
    /\ UNCHANGED done

\* The state after `if self.wrapper.wshMetaReqId: self.cancelWshMetaData()`
\* and `self.reqWshMetaData()`.
getWshMetaDataSent ==
    reqWshMetaData(IF wshActive(wshMetaReqId) THEN cancelWshMetaData(WshNow) ELSE WshNow)

\* IB.getWshMetaDataAsync() up to `await future`.
getWshMetaDataAsync(caller) ==
    wshAwait(caller, "getWshMetaDataAsync", getWshMetaDataSent, getWshMetaDataSent.meta)

\* The state after `if self.wrapper.wshEventReqId: self.cancelWshEventData()`
\* and `self.reqWshEventData(data)`.
getWshEventDataSent ==
    reqWshEventData(IF wshActive(wshEventReqId) THEN cancelWshEventData(WshNow) ELSE WshNow)

\* IB.getWshEventDataAsync(data) up to `await future`.
getWshEventDataAsync(caller) ==
    wshAwait(caller, "getWshEventDataAsync", getWshEventDataSent, getWshEventDataSent.event)

\* The callers after the answer to a WSH request came: who awaited the
\* metadata has returned with it, who awaited the event data goes on after
\* its `await`.
wshAnswered(future) ==
    [caller \in Callers |->
        IF calls[caller].name = "getWshEventDataAsync"
        THEN woken(future)[caller] ELSE resumed(future)[caller]]

\* Wrapper.wshMetaData(reqId, dataJson) and Wrapper.wshEventData(reqId,
\* dataJson): the pending request under reqId is completed with the data.
\* The answer to a request that was cancelled meanwhile may still arrive.
wshData(name, reqId) ==
    /\ reqKey(reqId) \in DOMAIN futures
    /\ \E caller \in Callers :
        /\ calls[caller].state = "awaiting"
        /\ calls[caller].key = reqKey(reqId)
        /\ calls[caller].name = IF name = "wshMetaData" THEN "getWshMetaDataAsync"
                                                     ELSE "getWshEventDataAsync"
    /\ done' = done \cup {futures[reqKey(reqId)]}
    /\ futures' = Without(futures, reqKey(reqId))
    /\ calls' = wshAnswered(futures[reqKey(reqId)])
    /\ WshBecome(WshNow)
    /\ ret' = futures[reqKey(reqId)]
    /\ op' = name
    /\ arg' = [caller |-> 0, key |-> reqKey(reqId)]
    /\ UNCHANGED futureSeq

\* getWshEventDataAsync after `await future`:
\* self.cancelWshEventData(); return future.result()
getWshEventDataReturns(caller) ==
    /\ calls[caller].name = "getWshEventDataAsync"
    /\ calls[caller].state = "woken"
    /\ WshBecome(cancelWshEventData(WshNow))
    /\ calls' = [calls EXCEPT ![caller].state = "returned"]
    /\ ret' = calls[caller].future
    /\ op' = "getWshEventDataReturns"
    /\ arg' = [caller |-> caller, key |-> calls[caller].key]
    /\ UNCHANGED <<futures, futureSeq, done>>

GetWshMetaDataAsync == \E caller \in Callers : getWshMetaDataAsync(caller)
GetWshEventDataAsync == \E caller \in Callers : getWshEventDataAsync(caller)
WshMetaData == \E reqId \in 1..MaxReqId : wshData("wshMetaData", reqId)
WshEventData == \E reqId \in 1..MaxReqId : wshData("wshEventData", reqId)
GetWshEventDataReturns == \E caller \in Callers : getWshEventDataReturns(caller)

NextWsh ==
    \/ ReqWshMetaData
    \/ CancelWshMetaData
    \/ ReqWshEventData
    \/ CancelWshEventData
    \/ GetWshMetaDataAsync
    \/ GetWshEventDataAsync
    \/ WshMetaData
    \/ WshEventData
    \/ GetWshEventDataReturns

SpecWsh == Init /\ [][NextWsh]_vars

\* ================================================================= claims
\* Each formula reads the last operation (op, arg), what it found (old) and
\* what it left (trades, reqIdSeq, order, ret, raised, emitted).

\* The key of the Trade the last placeOrder call was about: the order's own
\* orderId if it carried one, else the id the client handed out.
PlacedKey ==
    orderKey(clientId, IF arg.orderId # 0 THEN arg.orderId ELSE old.reqIdSeq, arg.permId)

\* The key of the Trade the last cancelOrder call was about.
CancelledKey == orderKey(arg.clientId, arg.orderId, arg.permId)

\* The events of `events` on the channel `event`.
OnChannel(events, event) == {i \in 1..Len(events) : events[i].event = event}

\* The last call was a placeOrder for a key with a Trade that was not done.
PlacedOnLiveTrade ==
    /\ op = "placeOrder"
    /\ PlacedKey \in DOMAIN old.trades
    /\ old.trades[PlacedKey].status \notin DoneStates

\* The last call was a cancelOrder for a key with a Trade.
CancelledKnownTrade ==
    /\ op = "cancelOrder"
    /\ CancelledKey \in DOMAIN old.trades

\* C1: a placeOrder whose key has a Trade that is not done keeps that one Trade:
\* no Trade is added, exactly one log entry is appended to it, orderModifyEvent
\* is emitted and newOrderEvent is not.
C1_SecondPlaceOrderModifies ==
    PlacedOnLiveTrade
    => (/\ DOMAIN trades = DOMAIN old.trades
        /\ Len(trades[PlacedKey].log) = Len(old.trades[PlacedKey].log) + 1
        /\ ret = PlacedKey
        /\ Cardinality(OnChannel(emitted, "orderModifyEvent")) = 1
        /\ OnChannel(emitted, "newOrderEvent") = {})

\* Two placeOrder calls in a row for one key: the Trade holds the new-order
\* entry and the Modify entry.
C1_Witness ==
    /\ PlacedOnLiveTrade
    /\ old.trades[PlacedKey].log = <<TradeLogEntry(PendingSubmit, "")>>
    /\ Len(trades[PlacedKey].log) = 2
    /\ trades[PlacedKey].log[2].message = "Modify"

\* C2: cancelOrder on a known Trade that is not done sets the status Cancelled
\* exactly when (status PendingSubmit and transmit = false) or status Inactive,
\* and PendingCancel otherwise; one log entry with the new status is appended.
C2_CancelNewStatus ==
    (CancelledKnownTrade /\ old.trades[CancelledKey].status \notin DoneStates)
    => LET was == old.trades[CancelledKey]
           now == trades[CancelledKey]
           direct == \/ was.status = PendingSubmit /\ ~arg.transmit
                     \/ was.status = Inactive
       IN  /\ now.status = IF direct THEN Cancelled ELSE PendingCancel
           /\ Len(now.log) = Len(was.log) + 1
           /\ SubSeq(now.log, 1, Len(was.log)) = was.log
           /\ now.log[Len(now.log)].status = now.status

\* A PendingSubmit Trade cancelled with transmit = false went to Cancelled.
C2_Witness ==
    /\ CancelledKnownTrade
    /\ ~arg.transmit
    /\ old.trades[CancelledKey].status = PendingSubmit
    /\ trades[CancelledKey].status = Cancelled
    /\ Len(trades[CancelledKey].log) = 2

\* C3: once a Trade is in a Done state, no placeOrder or cancelOrder call
\* changes its status.
C3_DoneStatusIsFinal ==
    \A k \in DOMAIN old.trades :
        (old.trades[k].status \in DoneStates /\ op \in {"placeOrder", "cancelOrder"})
        => (k \in DOMAIN trades /\ trades[k].status = old.trades[k].status)

\* cancelOrder was called for a Filled Trade, which is still Filled.
C3_Witness ==
    /\ CancelledKnownTrade
    /\ old.trades[CancelledKey].status = Filled
    /\ trades[CancelledKey].status = Filled

\* C4: cancelOrder on a Trade that is done appends no log entry, leaves the
\* status and emits none of the cancel, status or cancelled notifications.
C4_CancelDoneIsNoOp ==
    (CancelledKnownTrade /\ old.trades[CancelledKey].status \in DoneStates)
    => (/\ trades = old.trades
        /\ emitted = <<>>)

\* cancelOrder was called for a Trade already Cancelled: nothing was emitted.
C4_Witness ==
    /\ CancelledKnownTrade
    /\ old.trades[CancelledKey].status = Cancelled
    /\ emitted = <<>>

\* C5: cancelOrder emits the Trade's cancelledEvent only when the Trade was
\* PendingSubmit and the order passed to it had transmit = false.
C5_CancelledEventOnlyUntransmitted ==
    (op = "cancelOrder" /\ OnChannel(emitted, "trade.cancelledEvent") # {})
    => (/\ CancelledKey \in DOMAIN old.trades
        /\ old.trades[CancelledKey].status = PendingSubmit
        /\ ~arg.transmit)

\* cancelOrder emitted, last, the cancelledEvent of the Trade it returned.
C5_Witness ==
    /\ op = "cancelOrder"
    /\ ret # None
    /\ emitted # <<>>
    /\ emitted[Len(emitted)] = Emit("trade.cancelledEvent", ret)

\* C6 as claimed: placeOrder is a new order (a PendingSubmit Trade under the
\* key, newOrderEvent emitted) whenever no Trade that is not done exists under
\* the key, a Trade in a Done state included.
C6_Original ==
    (op = "placeOrder" /\ ~PlacedOnLiveTrade)
    => (/\ PlacedKey \in DOMAIN trades
        /\ trades[PlacedKey].status = PendingSubmit
        /\ OnChannel(emitted, "newOrderEvent") # {})

\* C6 amended: placeOrder is a modification exactly when a Trade that is not
\* done exists under the key; with no Trade under the key it is a new order (a
\* PendingSubmit Trade is created, newOrderEvent emitted); with a Trade in a
\* Done state under the key it is neither: no Trade is created or replaced, the
\* status stays and newOrderEvent is not emitted.
C6_NewOrderOnlyWithoutTrade ==
    op = "placeOrder"
    => IF PlacedKey \notin DOMAIN old.trades
       THEN /\ DOMAIN trades = DOMAIN old.trades \cup {PlacedKey}
            /\ trades[PlacedKey].status = PendingSubmit
            /\ OnChannel(emitted, "newOrderEvent") # {}
            /\ OnChannel(emitted, "orderModifyEvent") = {}
       ELSE IF old.trades[PlacedKey].status \notin DoneStates
       THEN /\ DOMAIN trades = DOMAIN old.trades
            /\ OnChannel(emitted, "orderModifyEvent") # {}
            /\ OnChannel(emitted, "newOrderEvent") = {}
       ELSE /\ DOMAIN trades = DOMAIN old.trades
            /\ trades[PlacedKey].status = old.trades[PlacedKey].status
            /\ OnChannel(emitted, "newOrderEvent") = {}

\* placeOrder was called for the key of a Filled Trade: the Trade is still
\* Filled and no event was emitted.
C6_Witness ==
    /\ op = "placeOrder"
    /\ PlacedKey \in DOMAIN old.trades
    /\ old.trades[PlacedKey].status = Filled
    /\ trades[PlacedKey].status = Filled
    /\ emitted = <<>>

\* C7: placeOrder with no Trade under the key allocates the next request id if
\* the order carries none and keeps the order's id otherwise, writes the
\* session's clientId on the order, registers one Trade (PendingSubmit, no
\* fills, one PendingSubmit log entry) and emits newOrderEvent once, nothing else.
C7_NewOrder ==
    (op = "placeOrder" /\ PlacedKey \notin DOMAIN old.trades)
    => (/\ order.orderId = IF arg.orderId # 0 THEN arg.orderId ELSE old.reqIdSeq
        /\ reqIdSeq = IF arg.orderId # 0 THEN old.reqIdSeq ELSE old.reqIdSeq + 1
        /\ order.clientId = clientId
        /\ order.permId = arg.permId
        /\ order.transmit = arg.transmit
        /\ DOMAIN trades = DOMAIN old.trades \cup {PlacedKey}
        /\ \A k \in DOMAIN old.trades : trades[k] = old.trades[k]
        /\ trades[PlacedKey].status = PendingSubmit
        /\ trades[PlacedKey].fills = <<>>
        /\ Len(trades[PlacedKey].log) = 1
        /\ trades[PlacedKey].log[1].status = PendingSubmit
        /\ emitted = <<Emit("newOrderEvent", PlacedKey)>>
        /\ ret = PlacedKey)

\* An order without orderId and with a foreign clientId was placed as a second
\* new order: it now carries the allocated id and the session's clientId.
C7_Witness ==
    /\ op = "placeOrder"
    /\ arg.orderId = 0
    /\ arg.clientId # clientId
    /\ PlacedKey \notin DOMAIN old.trades
    /\ DOMAIN old.trades # {}
    /\ order.orderId = old.reqIdSeq
    /\ order.clientId = clientId
    /\ PlacedKey \in DOMAIN trades

\* C8: a placeOrder that is a modification leaves the fills, the status and
\* the set of Trades as they are: the Trades change by one appended log entry
\* with the Trade's current status and the note "Modify", and the order object
\* is left as passed.
C8_ModifyFrame ==
    PlacedOnLiveTrade
    => (/\ trades = [old.trades EXCEPT ![PlacedKey].log =
                        Append(@, TradeLogEntry(old.trades[PlacedKey].status, "Modify"))]
        /\ order = arg)

\* A Trade with a fill was modified: the fill is still there and the log is
\* one entry longer.
C8_Witness ==
    /\ PlacedOnLiveTrade
    /\ old.trades[PlacedKey].fills # <<>>
    /\ trades[PlacedKey].fills = old.trades[PlacedKey].fills
    /\ Len(trades[PlacedKey].log) = Len(old.trades[PlacedKey].log) + 1

\* C9: cancelOrder for an order whose key has no Trade changes no Trade, emits
\* nothing and returns no Trade.
C9_CancelUnknownOrder ==
    (op = "cancelOrder" /\ CancelledKey \notin DOMAIN old.trades)
    => (/\ trades = old.trades
        /\ emitted = <<>>
        /\ ret = None
        /\ ~raised)

\* cancelOrder returned no Trade for an order whose orderId has a Trade under
\* the session's clientId, the order carrying another clientId.
C9_Witness ==
    /\ op = "cancelOrder"
    /\ ret = None
    /\ arg.orderId # 0
    /\ arg.clientId # clientId
    /\ orderKey(clientId, arg.orderId, arg.permId) \in DOMAIN trades

\* C10: for BUY and SELL bracketOrder returns three orders with three distinct
\* ids taken from the client by this call; take-profit and stop-loss carry the
\* entry order's id as parentId and the reverse of its action; only the
\* stop-loss order has transmit = true.
C10_BracketOrder ==
    (op = "bracketOrder" /\ arg.action \in {"BUY", "SELL"})
    => (/\ ~raised
        /\ Len(ret) = 3
        /\ {ret[1].orderId, ret[2].orderId, ret[3].orderId}
               \subseteq old.reqIdSeq..(reqIdSeq - 1)
        /\ Cardinality({ret[1].orderId, ret[2].orderId, ret[3].orderId}) = 3
        /\ ret[1].action = arg.action
        /\ ret[2].parentId = ret[1].orderId
        /\ ret[3].parentId = ret[1].orderId
        /\ ret[2].action = (IF arg.action = "BUY" THEN "SELL" ELSE "BUY")
        /\ ret[3].action = ret[2].action
        /\ ret[1].transmit = FALSE
        /\ ret[2].transmit = FALSE
        /\ ret[3].transmit = TRUE)

\* bracketOrder("SELL", ...) returned, with BUY children, after an order had
\* already taken the first request id.
C10_Witness ==
    /\ op = "bracketOrder"
    /\ ~raised
    /\ arg.action = "SELL"
    /\ ret[2].action = "BUY"
    /\ old.reqIdSeq = 2
    /\ ret[1].orderId = 2

\* ---------------------------------------------------------------- tickers
\* The last operation ended a stream kind of a Ticker.
TickerCancel == op \in {"cancelMktData", "cancelTickByTickData", "cancelMktDepth"}

\* The kind the last cancel call was to end.
CancelledKind ==
    CASE op = "cancelMktData" -> "mktData"
      [] op = "cancelMktDepth" -> "mktDepth"
      [] OTHER -> arg.tickType

\* The kind the last cancel call was to end was active when it was called.
CancelledActiveKind ==
    TickerCancel /\ <<CancelledKind, arg.contract>> \in DOMAIN old.ticker2ReqId

\* The kind the last cancel call was to end was not active when it was called.
CancelledInactiveKind ==
    TickerCancel /\ <<CancelledKind, arg.contract>> \notin DOMAIN old.ticker2ReqId

C12_CancelInactiveKind ==
    /\ \A c \in Contracts, k \in Kinds :
          <<k, c>> \notin DOMAIN ticker2ReqId => endTicker(c, k) = 0
    /\ CancelledInactiveKind
       => /\ sent = <<>>
          /\ op \in {"cancelMktData", "cancelTickByTickData"} => ret = "False"
          /\ tickers = old.tickers
          /\ ticker2ReqId = old.ticker2ReqId
          /\ reqIdSeq = old.reqIdSeq

\* cancelMktData on a contract whose Ticker streams depth only.
C12_Witness ==
    /\ op = "cancelMktData"
    /\ arg.contract \in old.tickers
    /\ ActiveKinds(old.ticker2ReqId, arg.contract) = {"mktDepth"}
    /\ ret = "False"
    /\ ActiveKinds(ticker2ReqId, arg.contract) = {"mktDepth"}

\* -------------------------------------------------------------------- P&L
\* The four P&L registries are as the last operation found them.
PnLRegistriesUnchanged ==
    /\ pnlKey2ReqId = old.pnlKey2ReqId
    /\ reqId2PnL = old.reqId2PnL
    /\ pnlSingleKey2ReqId = old.pnlSingleKey2ReqId
    /\ reqId2PnlSingle = old.reqId2PnlSingle

\* The last call was reqPnL or reqPnLSingle for a key that was subscribed.
StartedSubscribedKey ==
    \/ op = "reqPnL" /\ <<arg.account, arg.modelCode>> \in DOMAIN old.pnlKey2ReqId
    \/ /\ op = "reqPnLSingle"
       /\ <<arg.account, arg.modelCode, arg.conId>> \in DOMAIN old.pnlSingleKey2ReqId

\* The last call was cancelPnL or cancelPnLSingle for a key that was not subscribed.
CancelledUnknownKey ==
    \/ op = "cancelPnL" /\ <<arg.account, arg.modelCode>> \notin DOMAIN old.pnlKey2ReqId
    \/ /\ op = "cancelPnLSingle"
       /\ <<arg.account, arg.modelCode, arg.conId>> \notin DOMAIN old.pnlSingleKey2ReqId

\* C13: reqPnL / reqPnLSingle for a key that is already subscribed raises,
\* takes no request id from the client, sends no request and leaves the
\* key -> reqId and reqId -> object registries as they were.
C13_DuplicatePnLFailsFast ==
    StartedSubscribedKey
    => (/\ raised
        /\ reqIdSeq = old.reqIdSeq
        /\ sent = <<>>
        /\ PnLRegistriesUnchanged)

\* reqPnL raised for a key subscribed under request id 1, with another P&L
\* subscription alive beside it.
C13_Witness ==
    /\ op = "reqPnL"
    /\ raised
    /\ <<arg.account, arg.modelCode>> \in DOMAIN pnlKey2ReqId
    /\ pnlKey2ReqId[<<arg.account, arg.modelCode>>] = 1
    /\ reqId2PnL[1] = PnL(arg.account, arg.modelCode)
    /\ pnlSingleKey2ReqId # Empty

\* C14: cancelPnL / cancelPnLSingle for a key without subscription logs an
\* error, does not raise, sends no cancel and leaves the four P&L registries
\* as they were.
C14_CancelUnknownPnL ==
    CancelledUnknownKey
    => (/\ ~raised
        /\ logged # <<>>
        /\ sent = <<>>
        /\ PnLRegistriesUnchanged)

\* cancelPnLSingle logged an error for a key that is not subscribed while
\* other subscriptions are alive.
C14_Witness ==
    /\ op = "cancelPnLSingle"
    /\ logged = <<"cancelPnLSingle: No subscription">>
    /\ pnlSingleKey2ReqId # Empty
    /\ pnlKey2ReqId # Empty
    /\ <<arg.account, arg.modelCode, arg.conId>> \notin DOMAIN pnlSingleKey2ReqId

\* ---------------------------------------------------------------- connect
\* The attempt is over: connectAsync has returned or raised.
Finished == pc \in {"connected", "failed"}

\* The positions of the startup requests of a phase, in the order of issue.
TasksOf(phase) == {i \in 1..Len(tasks) : tasks[i].phase = phase}

\* The startup requests that timed out, and those besides them that did not complete.
TimedOut == {i \in 1..Len(tasks) : tasks[i].status = "timeout"}
NotDone == {i \in 1..Len(tasks) : tasks[i].status # "done"}

\* How often an event was emitted in the attempt.
Emitted(event) == Cardinality({i \in 1..Len(emitted) : emitted[i] = event})

\* The requests issued before the i-th one have all completed or timed out.
SettledBefore(i) == \A j \in 1..(i - 1) : tasks[j].status # "pending"

\* The message connectAsync records for the open orders request.
OpenOrdersTimedOut == <<"open orders", "request timed out">>

\* The attempt was non-strict, its open orders request timed out, every other
\* startup request completed and the connection did not break.
OnlyOpenOrdersTimedOut ==
    /\ Finished
    /\ ~arg.raiseSyncErrors
    /\ NotDone # {}
    /\ \A i \in NotDone :
          tasks[i] = [phase |-> "fanout", name |-> "open orders", status |-> "timeout"]
    /\ transport.state # "broken"

\* C15: a non-strict attempt in which the open orders request times out, every
\* other startup request completes and the connection stays up ends connected:
\* connectAsync returns, connectedEvent is emitted, the list of errors holds
\* exactly one message, the one of the open orders request, and the data of
\* every other request is in the wrapper.
C15_OpenOrdersTimeoutStillConnects ==
    OnlyOpenOrdersTimedOut
    => (/\ pc = "connected"
        /\ ~raised
        /\ ret = NoException
        /\ Emitted("connectedEvent") = 1
        /\ errors = <<OpenOrdersTimedOut>>
        /\ \A i \in 1..Len(tasks) : tasks[i].status = "done" => tasks[i].name \in session)

\* Connected after the open orders request timed out while positions, account
\* updates, both accounts and the executions completed.
C15_Witness ==
    /\ OnlyOpenOrdersTimedOut
    /\ pc = "connected"
    /\ {"positions", "account updates", "A1", "A2", "executions"} \subseteq session
    /\ Len(tasks) = 7

C17_AccountsSerial ==
    /\ \A i \in TasksOf("account") : SettledBefore(i)
    /\ Cardinality({i \in TasksOf("account") : tasks[i].status = "pending"}) <= 1
    /\ \A i \in TasksOf("account") : \A j \in TasksOf("fanout") : j < i
    /\ \A i \in TasksOf("account") :
          tasks[i].name = transport.accounts[Cardinality({j \in TasksOf("account") : j <= i})]

\* The second account waits while the first account and a fan-out request
\* have timed out.
C17_Witness ==
    /\ pc = "accounts"
    /\ Cardinality(TasksOf("account")) = 2
    /\ tasks[Len(tasks)].status = "pending"
    /\ tasks[Len(tasks) - 1].status = "timeout"
    /\ \E i \in TasksOf("fanout") : tasks[i].status = "timeout"
    /\ Cardinality(TasksOf("fanout")) = 4

\* C18: an attempt never ends connected with a client that is not ready.  When
\* the socket broke during the startup requests, the attempt ends with a
\* ConnectionError (in non-strict mode, or without timeouts, the one of the
\* final check), connectedEvent is not emitted and the wrapper holds no data
\* of the attempt.
C18_LivenessCheck ==
    /\ pc = "connected" => transport.state = "ready"
    /\ (Finished /\ transport.state = "broken")
       => (/\ pc = "failed"
           /\ raised
           /\ ret.exc = "ConnectionError"
           /\ ~raisesSyncErrors(arg.raiseSyncErrors, errors)
              => ret = ConnectionError(<<<<"Socket connection broken while connecting">>>>)
           /\ Emitted("connectedEvent") = 0
           /\ session = {})

\* The final check failed after two startup requests had completed and their
\* data had been in the wrapper.
C18_Witness ==
    /\ pc = "failed"
    /\ transport.state = "broken"
    /\ ret = ConnectionError(<<<<"Socket connection broken while connecting">>>>)
    /\ Cardinality({i \in 1..Len(tasks) : tasks[i].status = "done"}) >= 2
    /\ session = {}

\* The startup requests connectAsync issues for its arguments and what the
\* handshake told: the fan-out, one per account unless there are too many,
\* the executions if asked for.
AllIssued ==
    /\ \E i \in TasksOf("fanout") : tasks[i].name = "positions"
    /\ Cardinality(TasksOf("account"))
         = (IF syncsAccounts(transport.accounts) THEN Len(transport.accounts) ELSE 0)
    /\ Cardinality(TasksOf("executions"))
         = (IF "EXECUTIONS" \in arg.fetchFields THEN 1 ELSE 0)

\* C19: connectedEvent is emitted at most once in an attempt; when it has been
\* emitted the handshake is done, every startup request of the attempt has
\* been issued and has completed or timed out, the client is ready and
\* connectAsync has not raised; an attempt that failed has not emitted it.
C19_ConnectedEventOnce ==
    /\ Emitted("connectedEvent") <= 1
    /\ Emitted("connectedEvent") = 1
       => (/\ pc = "connected"
           /\ ~raised
           /\ transport.state = "ready"
           /\ emitted[Len(emitted)] = "connectedEvent"
           /\ AllIssued
           /\ SettledBefore(Len(tasks) + 1))
    /\ pc # "connected" => Emitted("connectedEvent") = 0

\* connectedEvent after seven startup requests, three of which timed out.
C19_Witness ==
    /\ emitted = <<"connectedEvent">>
    /\ Len(tasks) = 7
    /\ Cardinality(TimedOut) = 3

\* C20: the executions request is issued only if fetchFields has EXECUTIONS,
\* at most once, after every request of the fan-out and of the accounts has
\* been issued and has completed or timed out; it is the request that takes
\* the request id, and nothing is sent after it.
C20_ExecutionsLast ==
    \A i \in TasksOf("executions") :
        /\ "EXECUTIONS" \in arg.fetchFields
        /\ i = Len(tasks)
        /\ SettledBefore(i)
        /\ Cardinality(TasksOf("account"))
             = (IF syncsAccounts(transport.accounts) THEN Len(transport.accounts) ELSE 0)
        /\ sent[Len(sent)] = [msg |-> "reqExecutions", reqId |-> reqIdSeq - 1]
        /\ Cardinality({k \in 1..Len(sent) : sent[k].msg = "reqExecutions"}) = 1

\* The executions request waits after open and completed orders and one
\* account, the completed orders having timed out.
C20_Witness ==
    /\ pc = "executions"
    /\ tasks[Len(tasks)] = [phase |-> "executions", name |-> "executions", status |-> "pending"]
    /\ \E i \in TasksOf("fanout") : tasks[i].name = "open orders" /\ tasks[i].status = "done"
    /\ \E i \in TasksOf("fanout") :
          tasks[i].name = "completed orders" /\ tasks[i].status = "timeout"
    /\ Cardinality(TasksOf("account")) = 1

\* The handshake of the attempt succeeded: the startup requests are under way
\* or connectAsync has returned.
Synchronising == pc \in {"fanout", "accounts", "executions", "connected"}

\* The loop over the accounts is behind the attempt.
PastAccounts == pc \in {"executions", "connected"}

\* The accounts of the requests of the loop over the accounts, in order of issue.
AccountsRequested ==
    [i \in 1..Len(SelectSeq(tasks, LAMBDA task : task.phase = "account")) |->
        SelectSeq(tasks, LAMBDA task : task.phase = "account")[i].name]

\* How often a startup request of a phase and name was issued in the attempt.
Issued(phase, name) ==
    Cardinality({i \in TasksOf(phase) : tasks[i].name = name})

\* C21: when the handshake reports more managed accounts than
\* MaxSyncedSubAccounts, no request of the loop over the accounts is ever
\* issued, while positions are requested all the same; when it reports at
\* most that many, the loop has issued one request for every managed account,
\* in their order, by the time it is behind the attempt.
C21_SubAccountCeiling ==
    /\ (Synchronising /\ Len(transport.accounts) > arg.MaxSyncedSubAccounts)
       => (/\ TasksOf("account") = {}
           /\ Issued("fanout", "positions") = 1)
    /\ (PastAccounts /\ Len(transport.accounts) <= arg.MaxSyncedSubAccounts)
       => AccountsRequested = transport.accounts

\* Connected with two managed accounts over a ceiling of one: positions
\* completed, no account was requested.
C21_Witness ==
    /\ pc = "connected"
    /\ Len(transport.accounts) = 2
    /\ arg.MaxSyncedSubAccounts = 1
    /\ TasksOf("account") = {}
    /\ "positions" \in session

\* The flag that guards a request of the fan-out; positions have none.
FlagOf(name) ==
    CASE name = "open orders" -> "ORDERS_OPEN"
      [] name = "completed orders" -> "ORDERS_COMPLETE"
      [] name = "account updates" -> "ACCOUNT_UPDATES"

C23_FlagsDisableAccountFetching ==
    pc # "idle"
    => (/\ arg.fetchFields = StartupFetchNONE
           => \A i \in 1..Len(sent) : sent[i].msg # "reqAccountUpdates"
        /\ "SUB_ACCOUNT_UPDATES" \notin arg.fetchFields
           => TasksOf("account") = {})

\* ---------------------------------------------------------------- session
\* The wrapper holds nothing of a connection: no Trade (with its fills), no
\* Ticker, no subscription, no session data, no pending request.
StoreCleared ==
    /\ trades = NoTrades
    /\ tickers = {}
    /\ ticker2ReqId = Empty
    /\ pnlKey2ReqId = Empty
    /\ reqId2PnL = Empty
    /\ pnlSingleKey2ReqId = Empty
    /\ reqId2PnlSingle = Empty
    /\ session = {}
    /\ futures = Empty
    /\ reqId2Subscriber = {}

\* The wrapper and the client are as the last disconnect() found them.
StoreUntouched ==
    /\ trades = old.trades
    /\ tickers = old.tickers
    /\ ticker2ReqId = old.ticker2ReqId
    /\ pnlKey2ReqId = old.pnlKey2ReqId
    /\ reqId2PnL = old.reqId2PnL
    /\ session = old.session
    /\ futures = old.futures
    /\ transport = old.transport

CancelledLive ==
    /\ op = "cancelOrder"
    /\ CancelledKey \in DOMAIN old.trades
    /\ ~isDone(old.trades[CancelledKey])

\* C29: cancelOrder on a Trade that is not done emits the Trade's cancel
\* event, the Trade's status event, the session's cancelOrderEvent, the
\* session's orderStatusEvent and, last and only if the new status is
\* Cancelled, the Trade's cancelled event, in this order; the handlers of
\* these events find the Trade with the new log entry and the new status.
\* The handlers of newOrderEvent find the new Trade in wrapper.trades.
C29_UpdateBeforeNotify ==
    /\ CancelledLive
       => (/\ SubSeq(emitted, 1, 4)
                = <<Emit("trade.cancelEvent", CancelledKey),
                    Emit("trade.statusEvent", CancelledKey),
                    Emit("cancelOrderEvent", CancelledKey),
                    Emit("orderStatusEvent", CancelledKey)>>
           /\ IF trades[CancelledKey].status = Cancelled
              THEN /\ Len(emitted) = 5
                   /\ emitted[5] = Emit("trade.cancelledEvent", CancelledKey)
              ELSE Len(emitted) = 4
           /\ seen.trades[CancelledKey].status = trades[CancelledKey].status
           /\ seen.trades[CancelledKey].status \in {Cancelled, PendingCancel}
           /\ Len(seen.trades[CancelledKey].log) = Len(old.trades[CancelledKey].log) + 1
           /\ seen.trades[CancelledKey].log = trades[CancelledKey].log)
    /\ (op = "placeOrder" /\ OnChannel(emitted, "newOrderEvent") # {})
       => (/\ PlacedKey \notin DOMAIN old.trades
           /\ PlacedKey \in DOMAIN seen.trades
           /\ seen.trades = trades)

\* cancelOrder took a Trade that was never transmitted to Cancelled: five
\* events, whose handlers found the Trade Cancelled.
C29_Witness ==
    /\ CancelledLive
    /\ Len(emitted) = 5
    /\ seen.trades[CancelledKey].status = Cancelled
    /\ old.trades[CancelledKey].status = PendingSubmit

\* ------------------------------------------------- writers of the Trades
\* The last operation was a call of the caller, not a step of the decoder.
CallerOp == op \in {"placeOrder", "cancelOrder", "bracketOrder"}

\* The key of the Trade the last placeOrder or cancelOrder call was about.
CalledKey == IF op = "placeOrder" THEN PlacedKey ELSE CancelledKey

\* The Trade `new` is the Trade `was` with one more log entry.
Logged(was, new) ==
    /\ Len(new.log) = Len(was.log) + 1
    /\ SubSeq(new.log, 1, Len(was.log)) = was.log
    /\ new.fills = was.fills

OpenOrdersRequests == {"reqOpenOrdersAsync", "reqAllOpenOrdersAsync"}

\* The last operation was a request under a well-known key that had a
\* pending result already.
RequestedInFlight ==
    /\ op \in OpenOrdersRequests \cup {"reqPositionsAsync"}
    /\ arg.key \in DOMAIN old.futures

TimedOutCallers == {caller \in Callers : calls[caller].state = "timedOut"}

\* C28: when reqHistoricalData runs into its timeout, cancelHistoricalData is
\* sent with the request id of the request and the bar series the caller gets
\* is empty; bars that arrive for the request afterwards do not appear in
\* that series; with timeout 0 the wait has no deadline, so no request of
\* timeout 0 times out or is cancelled.  The code does not have this
\* property for a request with keepUpToDate: its series stays subscribed.
C28_TimeoutCancelsAndEmpties ==
    /\ op = "historicalTimeout"
       => (/\ sent = <<[msg |-> "cancelHistoricalData", reqId |-> arg.key[2]]>>
           /\ ret = arg.key[2]
           /\ bars[ret] = <<>>)
    /\ \A caller \in TimedOutCallers :
          /\ bars[calls[caller].key[2]] = <<>>
          /\ calls[caller].timeout # 0

\* The same for the requests without keepUpToDate.
C28_WithoutKeepUpToDate ==
    /\ op = "historicalTimeout"
       => (/\ sent = <<[msg |-> "cancelHistoricalData", reqId |-> arg.key[2]]>>
           /\ ret = arg.key[2]
           /\ bars[ret] = <<>>)
    /\ \A caller \in TimedOutCallers :
          /\ ~calls[caller].keepUpToDate => bars[calls[caller].key[2]] = <<>>
          /\ calls[caller].timeout # 0

\* ------------------------------------------------------------ whatIfOrder
\* C27: whatIfOrder leaves the given order as it was passed, its whatIf flag,
\* orderId and clientId included, and leaves wrapper.trades as it was; it
\* takes a fresh request id and sends one placeOrder under that id with a
\* copy of the order whose whatIf flag is set and whose other fields are the
\* given order's.
C27_WhatIfOrderFrame ==
    op = "whatIfOrder"
    => (/\ order = arg
        /\ trades = old.trades
        /\ reqIdSeq = old.reqIdSeq + 1
        /\ Len(sent) = 1
        /\ sent[1].msg = "placeOrder"
        /\ sent[1].orderId = old.reqIdSeq
        /\ sent[1].order.whatIf
        /\ sent[1].order = [arg EXCEPT !.whatIf = TRUE])

\* whatIfOrder was called on a session that holds a Trade, with an order
\* whose whatIf flag was not set: the flag is still not set, the order sent
\* has it set.
C27_Witness ==
    /\ op = "whatIfOrder"
    /\ trades # NoTrades
    /\ ~arg.whatIf
    /\ ~order.whatIf
    /\ arg.orderId = 0
    /\ order.orderId = 0
    /\ sent[1].order.whatIf
    /\ sent[1].orderId > 0

\* The sequence `a` is the beginning of the sequence `b`.
IsPrefix(a, b) == Len(a) <= Len(b) /\ SubSeq(b, 1, Len(a)) = a

\* C31: whatever placeOrder and cancelOrder calls were made, every registered
\* Trade has a log that is not empty, the log only grows (every Trade the
\* last operation found is still registered and its log then is the beginning
\* of its log now), and the status of the last log entry is the Trade's
\* current order status.
C31_LogAuditTrail ==
    /\ \A k \in DOMAIN trades :
        /\ Len(trades[k].log) >= 1
        /\ trades[k].log[Len(trades[k].log)].status = trades[k].status
    /\ \A k \in DOMAIN old.trades :
        /\ k \in DOMAIN trades
        /\ IsPrefix(old.trades[k].log, trades[k].log)

\* A Trade placed, modified and then cancelled: its log holds three entries,
\* the last one written by cancelOrder.
C31_Witness ==
    /\ op = "cancelOrder"
    /\ CancelledKey \in DOMAIN old.trades
    /\ Len(old.trades[CancelledKey].log) = 2
    /\ old.trades[CancelledKey].log[2].message = "Modify"
    /\ Len(trades[CancelledKey].log) = 3

\* The last call was a cancelOrder for a Trade that was not done and already
\* had the status PendingCancel.
CancelledPendingCancel ==
    /\ CancelledLive
    /\ old.trades[CancelledKey].status = PendingCancel

\* C32: cancelOrder is not idempotent. Every cancelOrder call for a Trade that
\* is not done appends exactly one log entry, carrying the status the call
\* gives the Trade, and emits the cancel and status notifications; for a Trade
\* that already is PendingCancel the entry says PendingCancel, the
\* notifications are emitted again and the status stays PendingCancel.
C32_CancelNotIdempotent ==
    CancelledLive =>
        LET was == old.trades[CancelledKey]
            now == trades[CancelledKey]
        IN  /\ Len(now.log) = Len(was.log) + 1
            /\ IsPrefix(was.log, now.log)
            /\ now.log[Len(now.log)].status = now.status
            /\ now.status = IF was.status = PendingSubmit /\ ~arg.transmit
                            THEN Cancelled ELSE PendingCancel
            /\ was.status = PendingCancel => now.status = PendingCancel
            /\ SubSeq(emitted, 1, 4) =
                 <<Emit("trade.cancelEvent", CancelledKey),
                   Emit("trade.statusEvent", CancelledKey),
                   Emit("cancelOrderEvent", CancelledKey),
                   Emit("orderStatusEvent", CancelledKey)>>

\* A second cancelOrder for the same Trade: it was PendingCancel, with the
\* entry of the first cancel as the last of its log, and got one more.
C32_Witness ==
    /\ CancelledPendingCancel
    /\ Len(old.trades[CancelledKey].log) = 2
    /\ old.trades[CancelledKey].log[2].status = PendingCancel
    /\ Len(trades[CancelledKey].log) = 3
    /\ Len(emitted) = 4

\* The cancel request of the last cancelOrder call.
CancelRequest == [msg |-> "cancelOrder", orderId |-> arg.orderId]

\* C33: every cancelOrder call sends its cancel request, whatever the lookup
\* of the Trade finds: also for a Trade that is done and for an order without
\* a Trade. Only the change of the Trade and the notifications depend on the
\* lookup: they happen for a Trade that is not done and in no other case.
C33_CancelAlwaysSends ==
    op = "cancelOrder" =>
        /\ sent = <<CancelRequest>>
        /\ ~raised
        /\ CancelledLive =>
            /\ trades # old.trades
            /\ emitted # <<>>
        /\ ~CancelledLive =>
            /\ trades = old.trades
            /\ emitted = <<>>

\* The request went out for a Trade that was Filled, and in an earlier state
\* of the model for an order without a Trade: here the former, with the
\* Trade returned and left as it was.
C33_Witness ==
    /\ op = "cancelOrder"
    /\ CancelledKey \in DOMAIN old.trades
    /\ old.trades[CancelledKey].status = Filled
    /\ ret = CancelledKey
    /\ sent = <<CancelRequest>>
    /\ trades = old.trades

\* The request went out for an order that has no Trade.
C33_WitnessUnknown ==
    /\ op = "cancelOrder"
    /\ CancelledKey \notin DOMAIN old.trades
    /\ sent = <<CancelRequest>>

\* The last call was a placeOrder for a key whose Trade was done.
PlacedOnDoneTrade ==
    /\ op = "placeOrder"
    /\ PlacedKey \in DOMAIN old.trades
    /\ old.trades[PlacedKey].status \in DoneStates

\* C34: a placeOrder whose key has a Trade in a Done state raises the
\* assertion error, and the order has been sent to the client by then; the
\* Trades, this Trade's log and status included, are as they were and neither
\* newOrderEvent nor a modify event is emitted.
C34_DoneAssertAfterSend ==
    PlacedOnDoneTrade =>
        /\ raised
        /\ sent = <<[msg |-> "placeOrder",
                     orderId |-> IF arg.orderId # 0 THEN arg.orderId ELSE old.reqIdSeq]>>
        /\ trades = old.trades
        /\ trades[PlacedKey].log = old.trades[PlacedKey].log
        /\ trades[PlacedKey].status = old.trades[PlacedKey].status
        /\ emitted = <<>>
        /\ order = arg

\* placeOrder was called for a Trade that cancelOrder had Cancelled: the call
\* raised with the order already in `sent`.
C34_Witness ==
    /\ PlacedOnDoneTrade
    /\ old.trades[PlacedKey].status = Cancelled
    /\ raised
    /\ Len(sent) = 1
    /\ sent[1].msg = "placeOrder"

\* The values of the dict `f`.
Range(f) == {f[k] : k \in DOMAIN f}

\* No two keys of the dict `f` have the same value.
Injective(f) == \A a, b \in DOMAIN f : f[a] = f[b] => a = b

\* The key of the last P&L call: of reqPnL and cancelPnL, of the Single calls.
PnLKey == <<arg.account, arg.modelCode>>
PnLSingleKey == <<arg.account, arg.modelCode, arg.conId>>

\* C35: whatever reqPnL, cancelPnL, reqPnLSingle and cancelPnLSingle calls
\* were made, the reqIds the keys map to are exactly the reqIds that hold a
\* P&L object, no two keys share a reqId and each key's reqId holds the
\* object of that key; a cancel leaves its key unregistered, and a request
\* for a key that is not registered (never subscribed, or cancelled) succeeds
\* and registers it under a fresh reqId.
C35_PnLRegistriesCorrespond ==
    /\ Range(pnlKey2ReqId) = DOMAIN reqId2PnL
    /\ Injective(pnlKey2ReqId)
    /\ \A k \in DOMAIN pnlKey2ReqId : reqId2PnL[pnlKey2ReqId[k]] = PnL(k[1], k[2])
    /\ Range(pnlSingleKey2ReqId) = DOMAIN reqId2PnlSingle
    /\ Injective(pnlSingleKey2ReqId)
    /\ \A k \in DOMAIN pnlSingleKey2ReqId :
        reqId2PnlSingle[pnlSingleKey2ReqId[k]] = PnLSingle(k[1], k[2], k[3])
    /\ op = "cancelPnL" => PnLKey \notin DOMAIN pnlKey2ReqId
    /\ op = "cancelPnLSingle" => PnLSingleKey \notin DOMAIN pnlSingleKey2ReqId
    /\ (op = "reqPnL" /\ PnLKey \notin DOMAIN old.pnlKey2ReqId) =>
        /\ ~raised
        /\ PnLKey \in DOMAIN pnlKey2ReqId
        /\ pnlKey2ReqId[PnLKey] = old.reqIdSeq
    /\ (op = "reqPnLSingle" /\ PnLSingleKey \notin DOMAIN old.pnlSingleKey2ReqId) =>
        /\ ~raised
        /\ PnLSingleKey \in DOMAIN pnlSingleKey2ReqId
        /\ pnlSingleKey2ReqId[PnLSingleKey] = old.reqIdSeq

\* reqPnL registered a key when every subscription made before (three reqIds
\* were handed out) had been cancelled: both registries of the P&L objects
\* held nothing and now hold the one new object, under the fourth reqId.
C35_Witness ==
    /\ op = "reqPnL"
    /\ ~raised
    /\ old.reqIdSeq = 4
    /\ old.pnlKey2ReqId = Empty
    /\ old.reqId2PnL = Empty
    /\ old.reqId2PnlSingle = Empty
    /\ DOMAIN reqId2PnL = {4}
    /\ pnlKey2ReqId[PnLKey] = 4

\* The account updates requests of the startup that have completed.
AccountUpdatesDone ==
    {i \in 1..Len(tasks) : downloads[i].marker # "none" /\ tasks[i].status = "done"}

\* C38: during startup the marker that ends an account's download completes
\* only the pending account updates request of that account: every account
\* updates request that has completed was completed by the marker of a
\* download of its own account, also when an earlier request timed out and
\* its marker came late.
C38_MarkerCompletesOwnAccount ==
    \A i \in AccountUpdatesDone :
        /\ downloads[i].by # 0
        /\ downloads[downloads[i].by].account = downloads[i].account

\* The startup requests that failed with an error that is no timeout.
Failed == {i \in 1..Len(tasks) : failed(tasks[i])}

\* The request connectAsync waited for last, alone, has failed: a request of
\* the loop over the accounts or the executions request.
LastAwaitFailed ==
    /\ tasks # <<>>
    /\ failed(tasks[Len(tasks)])
    /\ tasks[Len(tasks)].phase \in {"account", "executions"}

C39_WitnessAbort ==
    /\ op = "afterAccount"
    /\ ret = RequestError
    /\ \E i \in TasksOf("fanout") : failed(tasks[i])

\* connectAsync waits for a request that is still pending: for the gather of
\* the fan-out, or for the request it issued last.
WaitsOnPending ==
    \/ pc = "fanout" /\ ~gatherDone(tasks)
    \/ pc \in {"accounts", "executions"} /\ ~awaited(tasks[Len(tasks)])

\* The steps that are the server's, or the loss of the connection.
ServerOps == {"taskDone", "taskFails", "accountDownloadEnd", "connectionLost"}

\* connectAsync has ended: it has emitted connectedEvent and returned, or it
\* has raised with the session torn down.
Terminated ==
    \/ /\ pc = "connected"
       /\ ~raised
       /\ Emitted("connectedEvent") = 1
    \/ /\ pc = "failed"
       /\ raised
       /\ transport.state # "ready"
       /\ session = {}

\* C40: an attempt with a timeout that is not 0 terminates once its handshake
\* has begun, whether or not the server ever answers a startup request:
\* connectedEvent emitted and the call returned, or an error raised with the
\* session torn down.  With timeout 0, while connectAsync waits for a pending
\* request no step but one of the server (an answer, an error, the loss of
\* the connection) is taken: unanswered, the wait never ends.
C40_ConnectTerminates ==
    /\ (pc = "handshake" /\ arg.timeout # 0) ~> Terminated
    /\ [][(WaitsOnPending /\ arg.timeout = 0) => op' \in ServerOps]_vars

\* The attempt got no answer at all: every request of the fan-out, both
\* accounts and the executions timed out, and it ended connected.
C40_Witness ==
    /\ pc = "connected"
    /\ arg.timeout # 0
    /\ Len(tasks) >= 6
    /\ \A i \in 1..Len(tasks) : tasks[i].status = "timeout"
    /\ Terminated

\* An attempt with timeout 0 waits for the pending positions request.
C40_WitnessBlocked ==
    /\ pc = "fanout"
    /\ arg.timeout = 0
    /\ WaitsOnPending
    /\ TimedOut = {}

\* The request id of the scan the last scanner operation was about.
ScanReqId == arg.key[2]

\* C37: when the blocking scan returns, its subscription is ended: the cancel
\* of its request id has been sent and the scan list is not registered under
\* that id any more, as after cancelScannerSubscription, so the call leaves no
\* subscription behind.
C37_ScanFullyEnded ==
    /\ op = "reqScannerDataReturns" =>
        /\ sent = <<[msg |-> "cancelScannerSubscription", reqId |-> ScanReqId]>>
        /\ ScanReqId \notin reqId2Subscriber
    /\ op = "cancelScannerSubscription" =>
        /\ sent = <<[msg |-> "cancelScannerSubscription", reqId |-> ScanReqId]>>
        /\ ScanReqId \notin reqId2Subscriber

\* The part of C37 that holds: the cancel is sent when the scan returns, and
\* cancelScannerSubscription both sends the cancel and deregisters the list.
C37_CancelSent ==
    /\ op = "reqScannerDataReturns" =>
        sent = <<[msg |-> "cancelScannerSubscription", reqId |-> ScanReqId]>>
    /\ op = "cancelScannerSubscription" =>
        /\ sent = <<[msg |-> "cancelScannerSubscription", reqId |-> ScanReqId]>>
        /\ ScanReqId \notin reqId2Subscriber

\* The requests of one kind that were sent and not cancelled since.
WshOnWire(kind) == {m \in wire : m.kind = kind}

\* The requests that should be on the wire for a stored request id.
WshStored(kind, reqId) == IF reqId # 0 THEN {wshRequest(kind, reqId)} ELSE {}

\* The last operation sent nothing and took no request id.
WshNoEffect ==
    /\ sent = <<>>
    /\ reqIdSeq = old.reqIdSeq
    /\ wire = old.wire
    /\ wshMetaReqId = old.wshMetaReqId
    /\ wshEventReqId = old.wshEventReqId

\* C36: at most one WSH metadata request and at most one WSH event request is
\* active at any time: the stored request id is non-zero exactly when that
\* request is on the wire without a matching cancel, and no other request of
\* the kind is; a req while active and a cancel while inactive send nothing
\* and take no request id; when getWshEventData returns, no event request is
\* active.
C36_WshSingleActive ==
    /\ WshOnWire("meta") = WshStored("meta", wshMetaReqId)
    /\ WshOnWire("event") = WshStored("event", wshEventReqId)
    /\ (op = "reqWshMetaData" /\ old.wshMetaReqId # 0) => WshNoEffect
    /\ (op = "cancelWshMetaData" /\ old.wshMetaReqId = 0) => WshNoEffect
    /\ (op = "reqWshEventData" /\ old.wshEventReqId # 0) => WshNoEffect
    /\ (op = "cancelWshEventData" /\ old.wshEventReqId = 0) => WshNoEffect
    /\ op = "getWshEventDataReturns" => (wshEventReqId = 0 /\ WshOnWire("event") = {})

\* getWshEventData returned after another caller's getWshEventData had
\* replaced its request: the cancel it sent was the one of the other request.
C36_Witness ==
    /\ op = "getWshEventDataReturns"
    /\ old.wshEventReqId # 0
    /\ old.wshEventReqId # arg.key[2]
    /\ wshMetaReqId # 0
    /\ sent = <<[msg |-> "cancelWshEventData", reqId |-> old.wshEventReqId]>>

\* A req while a request is active.
C36_WitnessActive ==
    /\ op = "reqWshMetaData"
    /\ old.wshMetaReqId # 0
    /\ wshEventReqId # 0

\* getWshMetaData returned with the metadata: its request stays active.
C36_WitnessMeta ==
    /\ op = "wshMetaData"
    /\ wshMetaReqId = arg.key[2]

====
